---- MODULE Spec2Model ----
(***************************************************************************)
(* A model of codex_log_viewer.js: the source loader, the line decoder,    *)
(* the wire-shape normaliser, the block builders, the token analytics and  *)
(* their chart, the filter state controller and the click handlers.        *)
(*                                                                         *)
(* Representation.  A JavaScript string is modelled as a Text: the         *)
(* sequence of its lines, i.e. what s.split("\n") yields, each line a      *)
(* TLA+ string.  <<"ab", "c">> is "ab\nc" and <<"">> is the empty string.  *)
(* A JSON value is a record tagged by its JavaScript type; an object is    *)
(* the sequence of its <<key, value>> members in source order.  Where a    *)
(* string goes through the base64 codec it is the sequence of its UTF-16   *)
(* code units; CharCodes gives the code units of the lines concerned.      *)
(***************************************************************************)
EXTENDS Integers, Sequences, FiniteSets, TLC

VARIABLES
    doc,                      \* jsonlText.split(/\r?\n/): the raw lines
    options,                  \* the viewer options handed to renderJsonl
    pc,                       \* "start" | "loop" | "done" | "error": position in init()
    idx,                      \* number of raw lines consumed by the for-of loop
    blocks,                   \* renderJsonl: blocks (before filter(Boolean))
    availableFilterClasses,   \* renderJsonl: availableFilterClasses
    tokenSeries,              \* renderJsonl: tokenSeries
    userInterventionProgress, \* renderJsonl: userInterventionProgress
    sessionHeaderDone,        \* renderJsonl: sessionHeaderDone
    wrappedMode,              \* renderJsonl: wrappedMode ("null" | TRUE | FALSE)
    progress,                 \* renderJsonl: progress
    page,                     \* app.innerHTML after init(): the rendered document
    checked,                  \* the filter checkboxes: category -> checked
    hidden,                   \* document.body classes hide-<category>
    store,                    \* localStorage[FILTERS_KEY]
    storageAvailable,         \* FALSE when every localStorage access throws
    lastToggled,              \* history: category -> the value of its last change event
    fresh,                    \* history: no change event since the page was loaded
    source,                   \* what init() is given: the fetch result and the inline elements
    collapsedNow,             \* the collapsible blocks of the page: index -> has class collapsed
    toggles,                  \* their .toggle buttons: index -> aria-expanded and textContent
    clipboard                 \* what the copy handler has handed over, and by which way

vars == <<doc, options, pc, idx, blocks, availableFilterClasses, tokenSeries,
          userInterventionProgress, sessionHeaderDone, wrappedMode, progress,
          page, checked, hidden, store, storageAvailable, lastToggled, fresh,
          source, collapsedNow, toggles, clipboard>>

renderVars == <<blocks, availableFilterClasses, tokenSeries,
                userInterventionProgress, sessionHeaderDone, wrappedMode, progress>>

uiVars == <<checked, hidden, store, storageAvailable, lastToggled, fresh>>

domVars == <<collapsedNow, toggles, clipboard>>

-----------------------------------------------------------------------------
(* Bounds of the model *)

MaxLines == 3

-----------------------------------------------------------------------------
(* JSON values and the JavaScript operations the code applies to them *)

Undefined == [t |-> "undefined"]
Null == [t |-> "null"]
Bool(b) == [t |-> "boolean", v |-> b]
Num(n) == [t |-> "number", v |-> n]
Str(text) == [t |-> "string", v |-> text]
S(s) == Str(<<s>>)
Arr(items) == [t |-> "array", v |-> items]
Obj(members) == [t |-> "object", v |-> members]

EmptyText == <<"">>

\* ToBoolean: what `if (x)`, `x || y` and `x && y` test.
Truthy(x) ==
    CASE x.t = "undefined" -> FALSE
      [] x.t = "null" -> FALSE
      [] x.t = "boolean" -> x.v
      [] x.t = "number" -> x.v # 0
      [] x.t = "string" -> x.v # EmptyText
      [] OTHER -> TRUE

\* x !== null && typeof x === "object"
IsObjectLike(x) == x.t \in {"array", "object"}

\* x && typeof x === "object" && !Array.isArray(x)
IsPlainObject(x) == x.t = "object"

\* Object.prototype.hasOwnProperty.call(x, key), for the named keys the code asks for
HasOwn(x, key) == x.t = "object" /\ \E i \in 1..Len(x.v) : x.v[i][1] = key

\* x.key for a value that can be read; undefined when x has no such member
Get(x, key) ==
    IF HasOwn(x, key)
    THEN x.v[CHOOSE i \in 1..Len(x.v) :
                 x.v[i][1] = key /\ \A j \in (i+1)..Len(x.v) : x.v[j][1] # key][2]
    ELSE Undefined

\* x.key raises a TypeError exactly when x is null or undefined
ReadThrows(x) == x.t \in {"null", "undefined"}

\* x === "s" for a one-line string literal s
StrEq(x, s) == x.t = "string" /\ x.v = <<s>>

\* a || b
Or(a, b) == IF Truthy(a) THEN a ELSE b

\* for (const part of x): a TypeError unless x is iterable
Iterable(x) == x.t \in {"array", "string"}

-----------------------------------------------------------------------------
(* Text *)

\* a.concat(b) on strings
Cat(a, b) == SubSeq(a, 1, Len(a) - 1) \o <<a[Len(a)] \o b[1]>> \o SubSeq(b, 2, Len(b))

RECURSIVE JoinRange(_, _, _, _)
\* parts[lo], sep, ..., sep, parts[hi] as one text, for lo <= hi
JoinRange(parts, sep, lo, hi) ==
    IF lo = hi THEN parts[lo]
    ELSE LET mid == (lo + hi) \div 2
         IN Cat(Cat(JoinRange(parts, sep, lo, mid), sep), JoinRange(parts, sep, mid + 1, hi))

\* parts.join(sep) for a sequence of Text
Join(parts, sep) ==
    IF Len(parts) = 0 THEN EmptyText ELSE JoinRange(parts, sep, 1, Len(parts))

RECURSIVE SumLen(_, _, _)
\* the characters of the lines lo..hi of a text
SumLen(text, lo, hi) ==
    IF lo > hi THEN 0
    ELSE IF lo = hi THEN Len(text[lo])
    ELSE LET mid == (lo + hi) \div 2
         IN SumLen(text, lo, mid) + SumLen(text, mid + 1, hi)

\* s.length: the characters of the lines and the line feeds between them
Length(text) == SumLen(text, 1, Len(text)) + (Len(text) - 1)

\* s.split("\n").length
LineCount(text) == Len(text)

\* the strings whose trim() is empty
BlankStrings == {"", " ", "  "}

\* !s.trim()
IsBlankText(text) == \A i \in 1..Len(text) : text[i] \in BlankStrings

\* the values a for-of loop visits; the characters of a string are strings,
\* which have none of the members the loops read
Elements(x) ==
    IF x.t = "array" THEN x.v
    ELSE [i \in 1..Length(x.v) |-> S("?")]

-----------------------------------------------------------------------------
(* Conversions to text *)

RECURSIVE JSString(_)
RECURSIVE JoinElements(_)
\* Array.prototype.join(","): null and undefined elements give the empty string
JoinElements(items) ==
    IF Len(items) = 0 THEN EmptyText
    ELSE LET head == IF items[1].t \in {"null", "undefined"} THEN EmptyText
                     ELSE JSString(items[1])
         IN IF Len(items) = 1 THEN head
            ELSE Cat(Cat(head, <<",">>), JoinElements(Tail(items)))

\* String(x)
JSString(x) ==
    CASE x.t = "undefined" -> <<"undefined">>
      [] x.t = "null" -> <<"null">>
      [] x.t = "boolean" -> IF x.v THEN <<"true">> ELSE <<"false">>
      [] x.t = "number" -> <<ToString(x.v)>>
      [] x.t = "string" -> x.v
      [] x.t = "array" -> JoinElements(x.v)
      [] OTHER -> <<"[object Object]">>

\* the JSON form of a string: quotes around it, a line feed written as \n
\* (the strings of the model hold no quote, backslash or control character)
QuoteWith(text, q) == <<q \o Join([i \in 1..Len(text) |-> <<text[i]>>], <<"\\n">>)[1] \o q>>

Quote(text) == QuoteWith(text, "\"")

\* every line of a text moved right by two spaces
Indent(text) == [i \in 1..Len(text) |-> "  " \o text[i]]

RECURSIVE Pretty(_)
RECURSIVE PrettyItems(_, _)
\* the lines between the brackets of a pretty-printed array or object
PrettyItems(x, i) ==
    LET item == IF x.t = "array" THEN Pretty(x.v[i])
                ELSE Cat(Cat(Quote(<<x.v[i][1]>>), <<": ">>), Pretty(x.v[i][2]))
        line == Indent(IF i < Len(x.v) THEN Cat(item, <<",">>) ELSE item)
    IN IF i = Len(x.v) THEN line ELSE line \o PrettyItems(x, i + 1)

\* JSON.stringify(x, null, 2) for a JSON value x
Pretty(x) ==
    CASE x.t = "null" -> <<"null">>
      [] x.t = "boolean" -> IF x.v THEN <<"true">> ELSE <<"false">>
      [] x.t = "number" -> <<ToString(x.v)>>
      [] x.t = "string" -> Quote(x.v)
      [] x.t = "array" ->
            IF Len(x.v) = 0 THEN <<"[]">> ELSE <<"[">> \o PrettyItems(x, 1) \o <<"]">>
      [] OTHER ->
            IF Len(x.v) = 0 THEN <<"{}">> ELSE <<"{">> \o PrettyItems(x, 1) \o <<"}">>

RECURSIVE CompactWith(_, _)
RECURSIVE CompactItems(_, _, _)
CompactItems(x, q, i) ==
    LET item == IF x.t = "array" THEN CompactWith(x.v[i], q)
                ELSE q \o x.v[i][1] \o q \o ":" \o CompactWith(x.v[i][2], q)
    IN IF i = Len(x.v) THEN item ELSE item \o "," \o CompactItems(x, q, i + 1)

\* the one-line JSON text of a JSON value, its quotes written q
CompactWith(x, q) ==
    CASE x.t = "null" -> "null"
      [] x.t = "boolean" -> IF x.v THEN "true" ELSE "false"
      [] x.t = "number" -> ToString(x.v)
      [] x.t = "string" -> QuoteWith(x.v, q)[1]
      [] x.t = "array" ->
            IF Len(x.v) = 0 THEN "[]" ELSE "[" \o CompactItems(x, q, 1) \o "]"
      [] OTHER ->
            IF Len(x.v) = 0 THEN "{}" ELSE "{" \o CompactItems(x, q, 1) \o "}"

\* JSON.stringify(x)
Compact(x) == CompactWith(x, "\"")

\* the JSON text of x as it reads inside a JSON string: every quote escaped
Escaped(x) == CompactWith(x, "\\\"")

\* the decimal strings of the model and the numbers they denote
NumericStrings == ("0" :> 0) @@ ("7" :> 7) @@ ("1000000" :> 1000000)

NaN == [finite |-> FALSE, n |-> 0]
Finite(n) == [finite |-> TRUE, n |-> n]

RECURSIVE ToNumber(_)
\* Number(x), with Number.isFinite of the result
ToNumber(x) ==
    CASE x.t = "undefined" -> NaN
      [] x.t = "null" -> Finite(0)
      [] x.t = "boolean" -> Finite(IF x.v THEN 1 ELSE 0)
      [] x.t = "number" -> Finite(x.v)
      [] x.t = "string" ->
            IF IsBlankText(x.v) THEN Finite(0)
            ELSE IF Len(x.v) = 1 /\ x.v[1] \in DOMAIN NumericStrings
                 THEN Finite(NumericStrings[x.v[1]])
                 ELSE NaN
      [] x.t = "array" ->
            IF Len(x.v) = 0 THEN Finite(0)
            ELSE IF Len(x.v) = 1
                 THEN (IF x.v[1].t \in {"null", "undefined"} THEN Finite(0)
                       ELSE IF x.v[1].t \in {"boolean", "object"} THEN NaN
                       ELSE ToNumber(x.v[1]))
                 ELSE NaN
      [] OTHER -> NaN

-----------------------------------------------------------------------------
(* utf8ToBase64 and base64ToUtf8 *)

(* Here a string is the sequence of its UTF-16 code units, a byte array the
   sequence of its bytes, and a base64 string the sequence of the values
   0..63 of its characters, Pad for "=" and BadChar for a character outside
   the base64 alphabet. *)

Pad == 64
BadChar == 65
Replacement == 65533
ByteOrderMark == 65279

IsHigh(u) == u >= 55296 /\ u <= 56319
IsLow(u) == u >= 56320 /\ u <= 57343

RECURSIVE Scalars(_)
\* the scalar values TextEncoder reads from a string: a surrogate pair is one
\* code point, a surrogate on its own is U+FFFD
Scalars(units) ==
    IF Len(units) = 0 THEN <<>>
    ELSE IF IsHigh(units[1]) /\ Len(units) >= 2 /\ IsLow(units[2])
         THEN <<65536 + ((units[1] - 55296) * 1024) + (units[2] - 56320)>>
              \o Scalars(SubSeq(units, 3, Len(units)))
    ELSE IF IsHigh(units[1]) \/ IsLow(units[1])
         THEN <<Replacement>> \o Scalars(Tail(units))
    ELSE <<units[1]>> \o Scalars(Tail(units))

\* the UTF-8 bytes of a scalar value
Utf8Bytes(cp) ==
    IF cp < 128 THEN <<cp>>
    ELSE IF cp < 2048 THEN <<192 + (cp \div 64), 128 + (cp % 64)>>
    ELSE IF cp < 65536
         THEN <<224 + (cp \div 4096), 128 + ((cp \div 64) % 64), 128 + (cp % 64)>>
    ELSE <<240 + (cp \div 262144), 128 + ((cp \div 4096) % 64),
           128 + ((cp \div 64) % 64), 128 + (cp % 64)>>

RECURSIVE Flatten(_)
Flatten(seqs) == IF Len(seqs) = 0 THEN <<>> ELSE seqs[1] \o Flatten(Tail(seqs))

\* new TextEncoder().encode(text)
TextEncoder_encode(units) ==
    LET cps == Scalars(units)
    IN Flatten([i \in 1..Len(cps) |-> Utf8Bytes(cps[i])])

RECURSIVE btoa(_)
\* btoa(binary) for a binary string of bytes
btoa(bytes) ==
    IF Len(bytes) = 0 THEN <<>>
    ELSE IF Len(bytes) = 1
         THEN <<bytes[1] \div 4, (bytes[1] % 4) * 16, Pad, Pad>>
    ELSE IF Len(bytes) = 2
         THEN <<bytes[1] \div 4, ((bytes[1] % 4) * 16) + (bytes[2] \div 16),
                (bytes[2] % 16) * 4, Pad>>
    ELSE <<bytes[1] \div 4, ((bytes[1] % 4) * 16) + (bytes[2] \div 16),
           ((bytes[2] % 16) * 4) + (bytes[3] \div 64), bytes[3] % 64>>
         \o btoa(SubSeq(bytes, 4, Len(bytes)))

utf8ToBase64(units) == btoa(TextEncoder_encode(units))

\* atob: the padding that is taken off before decoding
Unpadded(b64) ==
    IF Len(b64) > 0 /\ Len(b64) % 4 = 0 /\ b64[Len(b64)] = Pad
    THEN (IF b64[Len(b64) - 1] = Pad THEN SubSeq(b64, 1, Len(b64) - 2)
          ELSE SubSeq(b64, 1, Len(b64) - 1))
    ELSE b64

RECURSIVE Sextets(_)
\* the bytes of a sequence of base64 values; left-over bits are dropped
Sextets(data) ==
    IF Len(data) < 2 THEN <<>>
    ELSE IF Len(data) = 2 THEN <<(data[1] * 4) + (data[2] \div 16)>>
    ELSE IF Len(data) = 3
         THEN <<(data[1] * 4) + (data[2] \div 16), ((data[2] % 16) * 16) + (data[3] \div 4)>>
    ELSE <<(data[1] * 4) + (data[2] \div 16), ((data[2] % 16) * 16) + (data[3] \div 4),
           ((data[3] % 4) * 64) + data[4]>>
         \o Sextets(SubSeq(data, 5, Len(data)))

\* atob(b64): the bytes, or an InvalidCharacterError
atob(b64) ==
    LET data == Unpadded(b64)
    IN IF Len(data) % 4 = 1 \/ \E i \in 1..Len(data) : data[i] > 63
       THEN [ok |-> FALSE, bytes |-> <<>>]
       ELSE [ok |-> TRUE, bytes |-> Sextets(data)]

IsContinuation(bytes, i) == i <= Len(bytes) /\ bytes[i] >= 128 /\ bytes[i] <= 191

RECURSIVE Decoded8(_)
\* the scalar values of UTF-8 bytes; a byte that begins no sequence is U+FFFD
Decoded8(bytes) ==
    IF Len(bytes) = 0 THEN <<>>
    ELSE LET b == bytes[1]
             Rest(n) == Decoded8(SubSeq(bytes, n + 1, Len(bytes)))
         IN IF b < 128 THEN <<b>> \o Rest(1)
            ELSE IF b >= 194 /\ b <= 223 /\ IsContinuation(bytes, 2)
                 THEN <<((b - 192) * 64) + (bytes[2] - 128)>> \o Rest(2)
            ELSE IF b >= 224 /\ b <= 239 /\ IsContinuation(bytes, 2) /\ IsContinuation(bytes, 3)
                 THEN <<((b - 224) * 4096) + ((bytes[2] - 128) * 64) + (bytes[3] - 128)>>
                      \o Rest(3)
            ELSE IF /\ b >= 240 /\ b <= 244 /\ IsContinuation(bytes, 2)
                    /\ IsContinuation(bytes, 3) /\ IsContinuation(bytes, 4)
                 THEN <<((b - 240) * 262144) + ((bytes[2] - 128) * 4096)
                        + ((bytes[3] - 128) * 64) + (bytes[4] - 128)>> \o Rest(4)
            ELSE <<Replacement>> \o Rest(1)

\* the code units of a scalar value
Utf16Units(cp) ==
    IF cp < 65536 THEN <<cp>>
    ELSE <<55296 + ((cp - 65536) \div 1024), 56320 + ((cp - 65536) % 1024)>>

\* new TextDecoder().decode(bytes): a byte order mark at the start is left out
TextDecoder_decode(bytes) ==
    LET cps == Decoded8(bytes)
        kept == IF Len(cps) > 0 /\ cps[1] = ByteOrderMark THEN Tail(cps) ELSE cps
    IN Flatten([i \in 1..Len(kept) |-> Utf16Units(kept[i])])

\* base64ToUtf8(b64): the string, or the exception atob raises
base64ToUtf8(b64) ==
    IF atob(b64).ok THEN [ok |-> TRUE, units |-> TextDecoder_decode(atob(b64).bytes)]
    ELSE [ok |-> FALSE, units |-> <<>>]

\* the code units of the line strings that go through the codec
CharCodes ==
    ("" :> <<>>)
    @@ ("0" :> <<48>>)
    @@ ("oops" :> <<111, 111, 112, 115>>)
    @@ ("null" :> <<110, 117, 108, 108>>)
    @@ ("+a" :> <<43, 97>>)
    @@ ("+b" :> <<43, 98>>)
    @@ ("cat" :> <<99, 97, 116>>)
    @@ ("EOF" :> <<69, 79, 70>>)
    @@ ("*** Begin Patch" :> <<42, 42, 42, 32, 66, 101, 103, 105, 110, 32, 80, 97, 116, 99, 104>>)
    @@ ("*** End Patch" :> <<42, 42, 42, 32, 69, 110, 100, 32, 80, 97, 116, 99, 104>>)
    @@ ("\\ud83d" :> <<55357>>)
    @@ ("\\ufeff+a" :> <<65279, 43, 97>>)

LineFeed == 10

\* the code units of a text: its lines with a line feed between them
UnitsOfText(text) ==
    Flatten([i \in 1..Len(text) |->
                IF i = 1 THEN CharCodes[text[i]] ELSE <<LineFeed>> \o CharCodes[text[i]]])

RECURSIVE SplitLines(_, _)
\* units.split("\n"), `line` being the line read so far
SplitLines(units, line) ==
    IF Len(units) = 0 THEN <<line>>
    ELSE IF units[1] = LineFeed THEN <<line>> \o SplitLines(Tail(units), <<>>)
    ELSE SplitLines(Tail(units), Append(line, units[1]))

\* the text whose code units are `units`
TextOfUnits(units) ==
    LET pieces == SplitLines(units, <<>>)
    IN [i \in 1..Len(pieces) |-> CHOOSE x \in DOMAIN CharCodes : CharCodes[x] = pieces[i]]

-----------------------------------------------------------------------------
(* JSON.parse on the JSON texts of the model *)

\* parseJsonStringMaybe and renderJsonl hand JSON.parse a string; a text that is
\* the JSON form of no value of JsonValues is not valid JSON.
ParseOk(value) == [ok |-> TRUE, value |-> value]
ParseFail == [ok |-> FALSE, value |-> Undefined]

-----------------------------------------------------------------------------
(* Blocks *)

NoBody == [text |-> EmptyText, items |-> <<>>]

\* one entry of the blocks array: a <div class='block CLS ...'>, the session
\* header <div class='session'>, or the empty string renderSessionHeader returns
Block(cls, label, ts, collapsible, collapsed, body) ==
    [kind |-> "block", cls |-> cls, label |-> label, ts |-> ts,
     collapsible |-> collapsible, collapsed |-> collapsed, applyPatch |-> FALSE, rawB64 |-> <<>>,
     text |-> body.text, items |-> body.items]

EmptyString ==
    [kind |-> "empty", cls |-> "", label |-> EmptyText, ts |-> EmptyText,
     collapsible |-> FALSE, collapsed |-> FALSE, applyPatch |-> FALSE, rawB64 |-> <<>>,
     text |-> EmptyText, items |-> <<>>]

Built(block) == [threw |-> FALSE, block |-> block]
Thrown == [threw |-> TRUE, block |-> EmptyString]

\* the timestamps of the model: ISO date-times with no zone, which Date reads
\* as local time, and what prettyTimestamp writes for them
TimestampSeconds == 0..9
Timestamp(s) == "2025-01-02T03:04:0" \o ToString(s)
PrettyOf(s) == "2025-01-02 03:04:0" \o ToString(s)

\* prettyTimestamp(tsRaw): "" for a falsy timestamp, the date and the time for
\* a timestamp Date can read, else the text as it is
prettyTimestamp(tsRaw) ==
    LET raw == JSString(tsRaw)
    IN IF ~Truthy(tsRaw) THEN EmptyText
       ELSE IF \E s \in TimestampSeconds : raw = <<Timestamp(s)>>
            THEN <<PrettyOf(CHOOSE s \in TimestampSeconds : raw = <<Timestamp(s)>>)>>
            ELSE raw

\* buildTimestampInline(tsRaw): the chip that shows prettyTimestamp(tsRaw), or ""
buildTimestampInline(tsRaw) == prettyTimestamp(tsRaw)

\* the values f(x) of the elements x of seq that satisfy keep, in order
SelectSeq2(seq, keep(_), f(_)) ==
    LET F[i \in 0..Len(seq)] ==
            IF i = 0 THEN <<>>
            ELSE F[i - 1] \o (IF keep(seq[i]) THEN <<f(seq[i])>> ELSE <<>>)
    IN F[Len(seq)]

\* renderMarkdown(text): the markdown source handed to the renderer
renderMarkdown(text) == IF text.t = "string" THEN text.v ELSE EmptyText

renderReasoning(entry, tsInline) ==
    LET summaryParts == Or(Get(entry, "summary"), Arr(<<>>))
        IsSummary(part) == Truthy(part) /\ StrEq(Get(part, "type"), "summary_text")
        PartText(part) == JSString(Or(Get(part, "text"), Str(EmptyText)))
        fromParts == SelectSeq2(Elements(summaryParts), IsSummary, PartText)
        text == Get(entry, "text")
        rawTexts == IF Len(fromParts) = 0 /\ text.t = "string" /\ ~IsBlankText(text.v)
                    THEN <<text.v>> ELSE fromParts
        content == IF Len(rawTexts) > 0 THEN Join(rawTexts, <<"", "", "">>)
                   ELSE Pretty(entry)
    IN IF ~Iterable(summaryParts) THEN Thrown
       ELSE Built(Block("reasoning", <<"Reasoning">>, tsInline, TRUE, FALSE,
                        [text |-> content, items |-> <<>>]))

renderMessage(entry, tsInline) ==
    LET role == IF StrEq(Get(entry, "role"), "user") THEN "user" ELSE "assistant"
        parts == Or(Get(entry, "content"), Arr(<<>>))
        HasText(part) == Truthy(part) /\ Get(part, "text").t = "string"
        PartText(part) == Get(part, "text").v
        texts == SelectSeq2(Elements(parts), HasText, PartText)
    IN IF ~Iterable(parts) THEN Thrown
       ELSE Built(Block(role, IF role = "user" THEN <<"User">> ELSE <<"Assistant">>,
                        tsInline, FALSE, FALSE,
                        [text |-> Join(texts, <<"", "", "">>), items |-> <<>>]))

\* String.prototype.toLowerCase on the status strings of the model; a string
\* with no upper-case letter is its own lower case
LowerCase == ("COMPLETED" :> "completed") @@ ("Completed" :> "completed")
             @@ ("In_Progress" :> "in_progress")
             @@ ("[object Object]" :> "[object object]")

toLowerCase(text) ==
    [i \in 1..Len(text) |->
        IF text[i] \in DOMAIN LowerCase THEN LowerCase[text[i]] ELSE text[i]]

\* sym with a fault: the status is compared as it is written
symAsWritten(status) ==
    LET normalized == JSString(Or(status, Str(EmptyText)))
    IN IF normalized = <<"completed">> THEN "&#x2705;"
       ELSE IF normalized = <<"in_progress">> THEN "&#x23F3;"
       ELSE "&#x2610;"

\* renderPlanUpdate: sym(status)
sym(status) ==
    LET normalized == toLowerCase(JSString(Or(status, Str(EmptyText))))
    IN IF normalized = <<"completed">> THEN "&#x2705;"
       ELSE IF normalized = <<"in_progress">> THEN "&#x23F3;"
       ELSE "&#x2610;"

\* (item && item.key)
AndGet(item, key) == IF Truthy(item) THEN Get(item, key) ELSE item

\* renderPlanUpdate: the <li> built for one element of planItems
PlanItem(item) ==
    LET step == Or(AndGet(item, "step"), Str(EmptyText))
        status == Or(AndGet(item, "status"), S("pending"))
    IN [sym |-> sym(status), step |-> JSString(step)]

renderPlanUpdate(argsObj, tsInline) ==
    LET explanation == Or(AndGet(argsObj, "explanation"), Str(EmptyText))
        planItems == Or(AndGet(argsObj, "plan"), Arr(<<>>))
        elems == Elements(planItems)
        items == [i \in 1..Len(elems) |-> PlanItem(elems[i])]
    IN IF ~Iterable(planItems) THEN Thrown
       ELSE Built(Block("plan", <<"Plan Update">>, tsInline, FALSE, FALSE,
                        [text |-> IF Truthy(explanation) THEN renderMarkdown(explanation)
                                  ELSE EmptyText,
                         items |-> items]))

-----------------------------------------------------------------------------
(* The records and lines the documents of the model are made of *)

KV(k, x) == <<k, x>>

\* an object with the members whose value is not undefined (an absent member)
Object(members) == Obj(SelectSeq(members, LAMBDA m : m[2].t # "undefined"))

TextPart(s) == Obj(<<KV("text", S(s))>>)

Message(role, s) ==
    Obj(<<KV("type", S("message")), KV("role", S(role)), KV("content", Arr(<<TextPart(s)>>))>>)

\* the wrapped shape { timestamp, type, payload }
Wrapped(ts, outer, payload) ==
    Obj(<<KV("timestamp", S(ts)), KV("type", S(outer)), KV("payload", payload)>>)

MsgUser == Message("user", "hi")
MsgAssistant == Message("assistant", "yo")
MsgAssistantTs ==
    Obj(<<KV("timestamp", S(Timestamp(1))), KV("type", S("message")), KV("role", S("assistant")),
          KV("content", Arr(<<TextPart("yo")>>))>>)
SessionMeta ==
    Obj(<<KV("id", S("s1")), KV("timestamp", S(Timestamp(0))),
          KV("git", Obj(<<KV("branch", S("main"))>>))>>)
Instructions == Obj(<<KV("instructions", S("be nice"))>>)
PayloadOnly == Obj(<<KV("payload", MsgUser)>>)
TaskStarted == Obj(<<KV("type", S("task_started"))>>)

Usage(inp, out) == Object(<<KV("input_tokens", inp), KV("output_tokens", out)>>)

TokenCount(last, total) ==
    Obj(<<KV("type", S("token_count")),
          KV("info", Object(<<KV("total_token_usage", total),
                              KV("last_token_usage", last)>>))>>)

TokenPlain == TokenCount(Usage(Num(7), Num(3)), Undefined)

\* the records of the general documents
GeneralValues ==
    {Null, MsgUser, MsgAssistantTs, SessionMeta, Instructions, PayloadOnly,
     TaskStarted, TokenPlain, Arr(<<MsgUser>>),
     Wrapped(Timestamp(2), "response_item", MsgUser),
     Wrapped(Timestamp(3), "session_meta", SessionMeta)}

\* a raw line: `lead` blanks, the text, `lead` blanks
Raw(lead, text) == [lead |-> lead, text |-> text]

\* lineRaw.trim()
trim(lineRaw) == lineRaw.text

GeneralLines ==
    {Raw(0, ""), Raw(1, "oops")} \cup {Raw(0, Compact(x)) : x \in GeneralValues}

\* the documents of at most n lines over a set of lines
Docs(lines, n) == UNION {[1..k -> lines] : k \in 0..n}

MaxContext == 1

\* the lines that may come before the record a document is about
ContextLines == {Raw(1, "oops"), Raw(0, Compact(MsgUser))}

\* the documents that end with one line of `lines`, after at most MaxContext
\* context lines
InContext(lines) ==
    {ctx \o <<l>> : ctx \in Docs(ContextLines, MaxContext), l \in lines}

(* token_count records *)


\* the values a token counter takes: absent, null, booleans, strings, arrays,
\* an object and numbers
CounterValues ==
    {Undefined, Null, Bool(TRUE), Bool(FALSE), Str(EmptyText), S("abc"), S("7"),
     Arr(<<>>), Arr(<<Num(7)>>), Obj(<<>>), Num(0), Num(3), Num(1000000)}

TotalValues == {Undefined, Null, S("abc"), Num(1000000)}

TokenValues ==
    {TokenCount(Usage(i, Num(3)), Undefined) : i \in CounterValues}
    \cup {TokenCount(Usage(Num(3), o), Undefined) : o \in CounterValues}
    \cup {TokenCount(Usage(i, i), Undefined) : i \in CounterValues}
    \cup {TokenCount(Usage(Num(1000000), Num(0)), Undefined),
          TokenCount(Usage(Num(0), Num(1000000)), Undefined)}
    \cup {TokenCount(Usage(Num(3), Num(7)), Usage(i, o)) : i \in TotalValues, o \in TotalValues}
    \cup {Obj(<<KV("type", S("token_count"))>>),
          Obj(<<KV("type", S("token_count")), KV("info", Null)>>),
          Obj(<<KV("type", S("token_count")), KV("info", Num(5))>>),
          TokenCount(Undefined, Undefined), TokenCount(Null, Null), TokenCount(S("abc"), Num(5)),
          Wrapped(Timestamp(4), "event_msg", TokenPlain),
          Wrapped(Timestamp(5), "event_msg", TokenCount(Usage(Null, Num(3)), Undefined))}

TokenLines == {Raw(0, Compact(x)) : x \in TokenValues}

(* update_plan calls *)

MaxPlanItems == 2

Step(step, status) == Object(<<KV("step", step), KV("status", status)>>)

PlanItems ==
    {Step(S("a"), S("completed")), Step(S("b"), S("pending")), Step(S("c"), S("in_progress")),
     Step(S("d"), Undefined), Step(S("e"), S("COMPLETED")), Step(Undefined, S("In_Progress")),
     Null}

PlanValues ==
    UNION {[1..k -> PlanItems] : k \in 0..MaxPlanItems}

\* the arguments of the update_plan calls: a plan list, with or without an
\* explanation; no plan; a plan that is a string; a plan that is a number
PlanArguments ==
    {Obj(<<KV("plan", Arr(p))>>) : p \in PlanValues}
    \cup {Obj(<<KV("explanation", S("why")), KV("plan", Arr(p))>>) :
              p \in {q \in PlanValues : Len(q) = 1}}
    \cup {Obj(<<KV("explanation", S("why"))>>), Obj(<<KV("plan", S("ab"))>>),
          Obj(<<KV("plan", Num(5))>>), Obj(<<KV("plan", Obj(<<>>))>>)}

FunctionCall(name, arguments) ==
    Object(<<KV("type", S("function_call")), KV("name", S(name)), KV("arguments", arguments)>>)

\* a function_call line whose arguments are the JSON text of args, and the
\* record JSON.parse reads from it
CallLine(name, args) ==
    [text |-> "{\"type\":\"function_call\",\"name\":\"" \o name
              \o "\",\"arguments\":\"" \o Escaped(args) \o "\"}",
     value |-> FunctionCall(name, S(Compact(args)))]

ShellArguments == Obj(<<KV("command", Arr(<<S("ls"), S("-l")>>))>>)

\* the arguments of the calls of another function: a command, and a plan
ShellCallArguments ==
    {ShellArguments, Obj(<<KV("plan", Arr(<<Step(S("a"), S("completed"))>>))>>)}

\* update_plan arguments that do not decode to a non-array object
OtherArguments == {Arr(<<Num(1)>>), S("abc"), Undefined}

(* function_call records whose command may hold a patch *)

\* A string with a code unit outside ASCII is written as JSON writes it: the
\* lone high surrogate U+D83D, and a line that starts with U+FEFF
LoneSurrogate == "\\ud83d"
MarkedLine == "\\ufeff+a"

\* a patch envelope around one line
PatchOf(line) == <<"*** Begin Patch", line, "*** End Patch">>

\* command arrays in the explicit form: apply_patch, then the patch text
ExplicitCommands ==
    {Arr(<<S("apply_patch"), Str(PatchOf("+a"))>>),
     Arr(<<S("apply_patch"), S("+a")>>),
     Arr(<<S("apply_patch"), S("")>>),
     Arr(<<S("apply_patch"), S(LoneSurrogate)>>),
     Arr(<<S("apply_patch"), S(MarkedLine)>>),
     Arr(<<S("apply_patch"), S("+a"), Str(PatchOf("+b"))>>)}

\* command arrays with an envelope in some element: alone, with text around
\* it, with a lone surrogate in it, after an element with none, twice
EnvelopeCommands ==
    {Arr(<<S("bash"), Str(PatchOf("+a"))>>),
     Arr(<<S("bash"), Str(<<"cat">> \o PatchOf("+a") \o <<"EOF">>)>>),
     Arr(<<S("bash"), Str(PatchOf(LoneSurrogate))>>),
     Arr(<<S("bash"), Str(PatchOf("+b"))>>),
     Arr(<<Str(PatchOf("+a")), Str(PatchOf("+b"))>>)}

\* command arrays with no patch: apply_patch alone, an envelope that is not
\* closed, elements that are not strings
ShellCommands ==
    {Arr(<<S("apply_patch")>>),
     Arr(<<Str(<<"*** Begin Patch", "+a">>)>>),
     Arr(<<Num(5), Null>>),
     Arr(<<>>)}

\* commands that are not arrays: a string, a string that holds an envelope
OtherCommands == {S("ls"), Str(PatchOf("+a"))}

CommandOf(cmd) == Obj(<<KV("command", cmd)>>)

PatchArguments == {CommandOf(c) : c \in ExplicitCommands \cup EnvelopeCommands}

CommandArguments ==
    PatchArguments \cup {CommandOf(c) : c \in ShellCommands \cup OtherCommands}

\* arguments written as a JSON string in the record
EncodedArguments ==
    {CommandOf(Arr(<<S("apply_patch"), S("+a")>>)), CommandOf(Arr(<<S("apply_patch")>>)),
     CommandOf(S("ls"))}

\* arguments that do not decode to a non-array object
UndecodedArguments == {Arr(<<S("apply_patch"), S("+a")>>), S("abc"), Undefined}

\* the function_call records with a command
CommandCalls ==
    {FunctionCall("shell", a) : a \in CommandArguments \cup UndecodedArguments}
    \cup {FunctionCall("update_plan", CommandOf(Arr(<<S("apply_patch"), S("+a")>>)))}

CommandLines ==
    {Raw(0, Compact(x)) : x \in CommandCalls}
    \cup {Raw(0, CallLine("shell", a).text) : a \in EncodedArguments}

-----------------------------------------------------------------------------
(* function_call_output records *)

RECURSIVE Repeat(_)
\* a string of n characters
Repeat(n) ==
    IF n = 0 THEN ""
    ELSE IF n % 2 = 1 THEN "x" \o Repeat(n - 1)
    ELSE LET half == Repeat(n \div 2) IN half \o half

\* a text of n lines
Lines(n) == [i \in 1..n |-> "x"]

FunctionOutput(output) ==
    Object(<<KV("type", S("function_call_output")), KV("output", output)>>)

NestedOutput(output) == Obj(<<KV("output", output)>>)

\* an output line whose output is the JSON text of x
OutputLine(x) ==
    [text |-> "{\"type\":\"function_call_output\",\"output\":\"" \o Escaped(x) \o "\"}",
     value |-> FunctionOutput(S(Compact(x)))]

\* the bodies measured against the thresholds 15000 / 300 and 4 / 3
OutputBodies ==
    {Undefined, Null, Bool(TRUE), Num(5), Str(EmptyText), S("5"), S("abc"), S("abcd"),
     S("abcde"), Str(<<"a", "b">>), Str(<<"", "", "">>), Str(<<"", "", "", "">>),
     S(Repeat(5000)), S(Repeat(14999)), S(Repeat(15000)), S(Repeat(20000)),
     Str(Lines(299)), Str(Lines(300)), Str(Lines(301)),
     Arr(<<Num(1), Num(2)>>), Obj(<<KV("x", Num(1))>>),
     NestedOutput(S("abc")), NestedOutput(S("abcd")), NestedOutput(Num(12345)),
     NestedOutput(Null)}

OutputValues == {FunctionOutput(b) : b \in OutputBodies}

NestedTexts ==
    {NestedOutput(S("abcde")), NestedOutput(S("ab")), Arr(<<Num(1), Num(2)>>),
     NestedOutput(Num(12345)), NestedOutput(Null), Obj(<<KV("x", Num(1))>>)}

OutputLines ==
    {Raw(0, Compact(x)) : x \in OutputValues}
    \cup {Raw(0, OutputLine(x).text) : x \in NestedTexts}

PlanLines ==
    {Raw(0, Compact(FunctionCall("update_plan", a))) : a \in PlanArguments}
    \cup {Raw(0, CallLine("update_plan", a).text) : a \in PlanArguments}
    \cup {Raw(0, Compact(FunctionCall("shell", a))) : a \in ShellCallArguments}
    \cup {Raw(0, Compact(FunctionCall("update_plan", a))) : a \in OtherArguments}

-----------------------------------------------------------------------------
(* Records in the legacy and in the wrapped shape *)

MaxShapeLines == 2

Reasoning ==
    Obj(<<KV("type", S("reasoning")),
          KV("summary", Arr(<<Obj(<<KV("type", S("summary_text")), KV("text", S("think"))>>)>>))>>)
UserMessage == Obj(<<KV("type", S("user_message")), KV("message", S("hey"))>>)
AgentMessage == Obj(<<KV("type", S("agent_message")), KV("message", S("sure"))>>)
AgentReasoning == Obj(<<KV("type", S("agent_reasoning")), KV("text", S("hmm"))>>)
Typeless == Obj(<<KV("note", S("n"))>>)

\* a record that itself has a timestamp and a payload member
Enveloped ==
    Obj(<<KV("timestamp", S(Timestamp(9))), KV("payload", MsgAssistant), KV("type", S("message")),
          KV("role", S("user")), KV("content", Arr(<<TextPart("hi")>>))>>)

\* the inner records
InnerValues ==
    {MsgUser, MsgAssistant, MsgAssistantTs, SessionMeta, Reasoning,
     FunctionCall("shell", ShellArguments),
     FunctionCall("update_plan", Obj(<<KV("plan", Arr(<<Step(S("a"), S("completed"))>>))>>)),
     FunctionOutput(S("abc")), UserMessage, AgentMessage, AgentReasoning, TokenPlain,
     TaskStarted, Typeless, Enveloped, Num(0)}

\* { timestamp: "T", type: "O", payload: R }; "T" is no date, and is shown as it is
Envelope(R) == Wrapped("T", "O", R)

ShapeValues == InnerValues \cup {Envelope(R) : R \in InnerValues}

LegacyLines == {Raw(0, Compact(R)) : R \in InnerValues}
WrappedLines == {Raw(0, Compact(Envelope(R))) : R \in InnerValues}

-----------------------------------------------------------------------------
(* Records of kinds the dispatch does not know *)

MaxKindLines == 2

Custom == Obj(<<KV("type", S("custom"))>>)
CustomState == Obj(<<KV("type", S("custom")), KV("record_type", S("state"))>>)
StateOnly == Obj(<<KV("record_type", S("state"))>>)
NumberKind == Obj(<<KV("type", Num(5))>>)
EmptyKind == Obj(<<KV("type", S("")), KV("record_type", S("state"))>>)

\* the fields of a user message, without their type
UntypedMessage == Obj(<<KV("role", S("user")), KV("content", Arr(<<TextPart("hi")>>))>>)

\* legacy records, and wrapped records whose payload has or lacks a type;
\* the last has no outer type and no payload
KindValues ==
    {Custom, CustomState, StateOnly, NumberKind, EmptyKind, Typeless, MsgUser,
     Envelope(Typeless), Envelope(Custom), Envelope(StateOnly), Envelope(MsgUser),
     Wrapped("T", "message", UntypedMessage),
     Obj(<<KV("timestamp", S("T")), KV("payload", StateOnly)>>),
     Obj(<<KV("timestamp", S("T")), KV("payload", Null)>>)}

KindLines == {Raw(0, Compact(x)) : x \in KindValues}

-----------------------------------------------------------------------------
(* Records that count for the progress index *)

MaxProgressLines == 3

\* a user message that carries its own timestamp
MsgUserTs ==
    Obj(<<KV("timestamp", S(Timestamp(6))), KV("type", S("message")), KV("role", S("user")),
          KV("content", Arr(<<TextPart("hi")>>))>>)

ProgressValues ==
    {MsgUser, MsgUserTs, UserMessage, MsgAssistant, TokenPlain,
     Wrapped(Timestamp(2), "response_item", MsgUser),
     Wrapped(Timestamp(4), "event_msg", TokenPlain)}

ProgressLines == {Raw(1, "oops")} \cup {Raw(0, Compact(x)) : x \in ProgressValues}

-----------------------------------------------------------------------------
(* Records that may be taken for the session header *)

MaxHeaderLines == 3

\* a token_count record that carries its own timestamp
TokenTs == Obj(<<KV("timestamp", S(Timestamp(5)))>> \o TokenPlain.v)

\* a user message whose timestamp is the empty string
MsgUserNoTs == Obj(<<KV("timestamp", S(""))>> \o MsgUser.v)

HeaderValues ==
    {MsgUser, MsgUserTs, MsgUserNoTs, TokenTs, Instructions,
     Wrapped(Timestamp(2), "response_item", MsgUser),
     Wrapped(Timestamp(3), "session_meta", SessionMeta)}

HeaderLines == {Raw(0, "oops")} \cup {Raw(0, Compact(x)) : x \in HeaderValues}

-----------------------------------------------------------------------------
(* JSON.parse *)

\* documents that are one JSON value: arrays of records, and records
MaxArrayItems == 2
ArrayItems == {MsgUser, Null, Num(0)}
ArrayDocuments == {Arr(d) : d \in Docs(ArrayItems, MaxArrayItems)}
ObjectDocuments == {MsgUser, SessionMeta}
DocumentValues == ArrayDocuments \cup ObjectDocuments

\* the JSON text of an array or an object written on several lines: the
\* brackets and every element or member on a line of its own
SpreadItem(x, i) ==
    (IF x.t = "array" THEN Compact(x.v[i])
     ELSE "\"" \o x.v[i][1] \o "\":" \o Compact(x.v[i][2]))
    \o (IF i < Len(x.v) THEN "," ELSE "")

Spread(x) ==
    IF Len(x.v) = 0 THEN <<Compact(x)>>
    ELSE <<IF x.t = "array" THEN "[" ELSE "{">>
         \o [i \in 1..Len(x.v) |-> SpreadItem(x, i)]
         \o <<IF x.t = "array" THEN "]" ELSE "}">>

SpreadTable == {[text |-> Spread(x), value |-> x] : x \in DocumentValues}

\* the JSON values whose one-line JSON text occurs in the model
JsonValues ==
    DocumentValues \cup HeaderValues \cup {FunctionOutput(Str(<<"a", "bc">>))} \cup GeneralValues \cup TokenValues \cup OutputValues \cup PlanArguments \cup NestedTexts
    \cup ShapeValues \cup ProgressValues \cup KindValues
    \cup {FunctionCall("update_plan", a) : a \in PlanArguments \cup OtherArguments}
    \cup {FunctionCall("shell", a) : a \in ShellCallArguments}
    \cup CommandCalls \cup EncodedArguments

\* JSON text |-> the value JSON.parse returns for it
JsonTable ==
    {[text |-> Compact(x), value |-> x] : x \in JsonValues}
    \cup {CallLine("update_plan", a) : a \in PlanArguments}
    \cup {OutputLine(x) : x \in NestedTexts}
    \cup {CallLine("shell", a) : a \in EncodedArguments}

\* JSON.parse(text): the value read, or a SyntaxError.  A text that is the JSON
\* form of no value of the model is not valid JSON.
Lookup(table, text) ==
    IF Len(text) = 1 /\ \E e \in table : e.text = text[1]
    THEN ParseOk((CHOOSE e \in table : e.text = text[1]).value)
    ELSE ParseFail

\* JSON.parse of a text of several lines: white space between the tokens of a
\* JSON text does not count
LookupLines(table, text) ==
    IF \E e \in table : e.text = text
    THEN ParseOk((CHOOSE e \in table : e.text = text).value)
    ELSE ParseFail

JSON_parse(text) ==
    IF Len(text) > 1 THEN LookupLines(SpreadTable, text) ELSE Lookup(JsonTable, text)

\* parseJsonStringMaybe: the try and the catch around JSON.parse
ParsedOrRaw(parsed, value) ==
    IF parsed.ok THEN parsed ELSE [ok |-> FALSE, value |-> value]

parseJsonStringMaybe(value) ==
    IF IsObjectLike(value) THEN ParseOk(value)
    ELSE IF value.t # "string" THEN [ok |-> FALSE, value |-> Null]
    ELSE ParsedOrRaw(JSON_parse(value.v), value)

-----------------------------------------------------------------------------
(* The block builders, continued *)

\* parsed.ok && parsed.value && typeof parsed.value === "object"
\*   && !Array.isArray(parsed.value)
IsParsedObject(parsed) ==
    parsed.ok /\ Truthy(parsed.value) /\ IsPlainObject(parsed.value)

isPlanUpdateFunctionCall(entry) ==
    IF ~Truthy(entry) \/ ~StrEq(Get(entry, "name"), "update_plan") THEN FALSE
    ELSE IsParsedObject(parseJsonStringMaybe(Get(entry, "arguments")))

NoPatch == [found |-> FALSE, text |-> EmptyText]

\* s.match(/\*\*\* Begin Patch([\s\S]*?)\*\*\* End Patch/) for a text whose
\* markers, if any, are whole lines: the first Begin line up to the next End line
PatchEnvelope(text) ==
    LET begins == {i \in 1..Len(text) : text[i] = "*** Begin Patch"}
        first == CHOOSE i \in begins : \A j \in begins : i <= j
        ends == {j \in 1..Len(text) : j > first /\ text[j] = "*** End Patch"}
        last == CHOOSE j \in ends : \A k \in ends : j <= k
    IN IF begins = {} THEN NoPatch
       ELSE IF ends = {} THEN NoPatch
       ELSE [found |-> TRUE, text |-> SubSeq(text, first, last)]

RECURSIVE FirstEnvelope(_)
\* the for-of loop of extractPatchFromCommand: the first part that matches wins
FirstEnvelope(cmd) ==
    IF Len(cmd) = 0 THEN NoPatch
    ELSE LET m == PatchEnvelope(JSString(cmd[1]))
         IN IF m.found THEN m ELSE FirstEnvelope(Tail(cmd))

\* extractPatchFromCommand with a fault: an envelope is looked for first
extractPatchEnvelopeFirst(cmd) ==
    IF cmd.t # "array" THEN NoPatch
    ELSE IF FirstEnvelope(cmd.v).found THEN FirstEnvelope(cmd.v)
    ELSE IF Len(cmd.v) >= 2 /\ JSString(cmd.v[1]) = <<"apply_patch">>
         THEN [found |-> TRUE, text |-> JSString(cmd.v[2])]
         ELSE NoPatch

extractPatchFromCommand(cmd) ==
    IF cmd.t # "array" THEN NoPatch
    ELSE IF Len(cmd.v) >= 2 /\ JSString(cmd.v[1]) = <<"apply_patch">>
         THEN [found |-> TRUE, text |-> JSString(cmd.v[2])]
         ELSE FirstEnvelope(cmd.v)

\* renderFunctionCall once entry.arguments has gone through parseJsonStringMaybe
FunctionCallBlock(entry, parsed, tsInline) ==
    LET name == Or(Get(entry, "name"), S("function"))
        argsRaw == Get(entry, "arguments")
        argsObj == parsed.value
        isObject == IsParsedObject(parsed)
        patch == extractPatchFromCommand(Get(argsObj, "command"))
        cmd == Get(argsObj, "command")
        body == IF isObject
                THEN (IF cmd.t = "array"
                      THEN Cat(<<"$ ">>, Join([i \in 1..Len(cmd.v) |-> JSString(cmd.v[i])], <<" ">>))
                      ELSE Pretty(argsObj))
                ELSE JSString(argsRaw)
    IN IF StrEq(name, "update_plan") /\ isObject THEN renderPlanUpdate(argsObj, tsInline)
       ELSE IF isObject /\ patch.found
            THEN Built([Block("func-call", <<"Apply Patch">>, tsInline, TRUE, FALSE,
                              [text |-> patch.text, items |-> <<>>])
                        EXCEPT !.applyPatch = TRUE,
                               !.rawB64 = utf8ToBase64(UnitsOfText(patch.text))])
            ELSE Built(Block("func-call", Cat(<<"Function Call: ">>, JSString(name)), tsInline,
                             FALSE, FALSE, [text |-> body, items |-> <<>>]))

renderFunctionCall(entry, tsInline) ==
    FunctionCallBlock(entry, parseJsonStringMaybe(Get(entry, "arguments")), tsInline)

\* renderFunctionOutput: a body that is not a string goes through JSON.stringify
Stringified(body) ==
    IF body.t = "string" THEN body
    ELSE IF body.t = "undefined" THEN Undefined   \* JSON.stringify(undefined)
    ELSE Str(Pretty(body))

\* Unwrapped with a fault: the output field is taken only when it is truthy
UnwrappedWhenTruthy(output, parsed) ==
    IF IsParsedObject(parsed) /\ Truthy(Get(parsed.value, "output"))
    THEN Get(parsed.value, "output")
    ELSE output

\* renderFunctionOutput: the output field of a parsed object, else the output itself
Unwrapped(output, parsed) ==
    IF IsParsedObject(parsed) /\ HasOwn(parsed.value, "output")
    THEN Get(parsed.value, "output")
    ELSE output

\* renderFunctionOutput: the body before it is measured, or undefined
OutputBody(entry) ==
    Stringified(Unwrapped(Get(entry, "output"), parseJsonStringMaybe(Get(entry, "output"))))

\* isLarge with a fault: a body at a threshold is not large
isLargeAboveOnly(body, opts) ==
    \/ Length(body) > opts.collapseOutputCharThreshold
    \/ LineCount(body) > opts.collapseOutputLineThreshold

\* renderFunctionOutput: isLarge
isLarge(body, opts) ==
    \/ Length(body) >= opts.collapseOutputCharThreshold
    \/ LineCount(body) >= opts.collapseOutputLineThreshold

\* renderFunctionOutput once the body is a string, or undefined
OutputBlock(body, tsInline, opts) ==
    IF body.t = "undefined" THEN Thrown   \* body.length of undefined
    ELSE Built(Block("func-output", <<"Function Output">>, tsInline, TRUE,
                     isLarge(body.v, opts), [text |-> body.v, items |-> <<>>]))

renderFunctionOutput(entry, tsInline, opts) ==
    OutputBlock(OutputBody(entry), tsInline, opts)

\* renderTokenUsage: the counters shown in one section, in this order
UsageKeys ==
    <<KV("input_tokens", "Input"), KV("cached_input_tokens", "Cached Input"),
      KV("output_tokens", "Output"), KV("reasoning_output_tokens", "Reasoning"),
      KV("total_tokens", "Total")>>

\* renderTokenUsage: itemRow(title, data); no rows gives no section
itemRow(title, data) ==
    LET Shown(key) == HasOwn(data, key[1]) /\ Get(data, key[1]).t # "null"
        Row(key) == [k |-> key[2], text |-> JSString(Get(data, key[1]))]
        parts == SelectSeq2(UsageKeys, Shown, Row)
    IN IF Len(parts) = 0 THEN <<>> ELSE <<[k |-> title, rows |-> parts]>>

renderTokenUsage(entry, tsInline) ==
    LET info == Or(AndGet(entry, "info"), Obj(<<>>))
        total == Or(Get(info, "total_token_usage"), Obj(<<>>))
        last == Or(Get(info, "last_token_usage"), Obj(<<>>))
        mcw == Get(info, "model_context_window")
        window == IF mcw.t \in {"null", "undefined"} THEN <<>>
                  ELSE <<[k |-> "Model Context",
                          rows |-> <<[k |-> "Window", text |-> JSString(mcw)]>>]>>
    IN Built(Block("usage", <<"Token Usage">>, tsInline, FALSE, FALSE,
                   [text |-> EmptyText,
                    items |-> itemRow("Total", total) \o itemRow("Last Call", last) \o window]))

\* renderSessionHeader: the <div class='session'>, or "" when meta shows nothing
renderSessionHeader(meta, tsInline) ==
    LET git == Or(Get(meta, "git"), Obj(<<>>))
        Part(k, x) == IF Truthy(x) THEN <<[k |-> k, text |-> JSString(x)]>> ELSE <<>>
        parts == Part("Session", Get(meta, "id")) \o Part("Started", Get(meta, "timestamp"))
                 \o Part("Repo", Get(git, "repository_url")) \o Part("Branch", Get(git, "branch"))
                 \o Part("Commit", Get(git, "commit_hash"))
    IN IF Len(parts) = 0 THEN EmptyString
       ELSE [kind |-> "session", cls |-> "", label |-> <<"Codex Session Log">>, ts |-> tsInline,
             collapsible |-> FALSE, collapsed |-> FALSE, applyPatch |-> FALSE, rawB64 |-> <<>>,
             text |-> EmptyText, items |-> parts]

\* The prices per 1,000,000 tokens, 1.75 and 14.0 dollars, in cents.
TOKEN_PRICE_INPUT_PER_1M == 175
TOKEN_PRICE_OUTPUT_PER_1M == 1400

\* The prices per token.  Money is counted in micro-cents (10^-8 dollar), in
\* which the quotients of the source are whole: a price in cents is 1000000
\* times as many micro-cents, divided by the 1_000_000 tokens it is quoted for.
TOKEN_PRICE_INPUT_PER_TOKEN == (TOKEN_PRICE_INPUT_PER_1M * 1000000) \div 1000000

\* TOKEN_PRICE_OUTPUT_PER_TOKEN with a fault: derived from the input price
OutputPriceFromInputPrice == (TOKEN_PRICE_INPUT_PER_1M * 1000000) \div 1000000

TOKEN_PRICE_OUTPUT_PER_TOKEN == (TOKEN_PRICE_OUTPUT_PER_1M * 1000000) \div 1000000

NoMetrics == [some |-> FALSE, inputTokens |-> 0, outputTokens |-> 0, turnPriceUsd |-> 0,
              cumulative |-> FALSE, cumulativePriceUsd |-> 0]

\* readTokenMetrics(entry): null (some = FALSE) or the metrics of the record;
\* cumulative = FALSE stands for cumulativePriceUsd === null
readTokenMetrics(entry) ==
    LET info == Or(AndGet(entry, "info"), Obj(<<>>))
        last == Or(Get(info, "last_token_usage"), Obj(<<>>))
        total == Or(Get(info, "total_token_usage"), Obj(<<>>))
        inputTokens == ToNumber(Get(last, "input_tokens"))
        outputTokens == ToNumber(Get(last, "output_tokens"))
        totalInputTokens == ToNumber(Get(total, "input_tokens"))
        totalOutputTokens == ToNumber(Get(total, "output_tokens"))
        hasTotal == totalInputTokens.finite /\ totalOutputTokens.finite
    IN IF ~inputTokens.finite \/ ~outputTokens.finite THEN NoMetrics
       ELSE [some |-> TRUE,
             inputTokens |-> inputTokens.n,
             outputTokens |-> outputTokens.n,
             turnPriceUsd |-> (inputTokens.n * TOKEN_PRICE_INPUT_PER_TOKEN)
                              + (outputTokens.n * TOKEN_PRICE_OUTPUT_PER_TOKEN),
             cumulative |-> hasTotal,
             cumulativePriceUsd |->
                 IF hasTotal
                 THEN (totalInputTokens.n * TOKEN_PRICE_INPUT_PER_TOKEN)
                      + (totalOutputTokens.n * TOKEN_PRICE_OUTPUT_PER_TOKEN)
                 ELSE 0]

-----------------------------------------------------------------------------
(* renderJsonl *)

\* the locals of renderJsonl before its loop
LoopStart ==
    [blocks |-> <<>>, availableFilterClasses |-> {}, tokenSeries |-> <<>>,
     userInterventionProgress |-> <<>>, sessionHeaderDone |-> FALSE,
     wrappedMode |-> "null", progress |-> 0, threw |-> FALSE]

UnparsedLine(line) ==
    Block("func-output", <<"Unparsed Line">>, EmptyText, FALSE, FALSE,
          [text |-> <<line>>, items |-> <<>>])

\* DetectWrapped with a fault: the payload member alone decides
DetectWrappedByPayload(rawObj) ==
    IF IsObjectLike(rawObj) /\ HasOwn(rawObj, "payload") THEN "true" ELSE "false"

\* the wire shape read off the first record that parses
DetectWrapped(rawObj) ==
    IF IsObjectLike(rawObj) /\ HasOwn(rawObj, "payload") /\ HasOwn(rawObj, "timestamp")
    THEN "true" ELSE "false"

\* UnknownEvent with a fault: the outer type is taken before the type
UnknownEventOuterFirst(entry, typ, outerType) ==
    LET eventLabel ==
            Or(outerType, Or(typ, Or(Get(entry, "record_type"), S("unknown"))))
    IN Block("func-output", Cat(<<"Event: ">>, JSString(eventLabel)), EmptyText, FALSE, FALSE,
             [text |-> Pretty(entry), items |-> <<>>])

UnknownEvent(entry, typ, outerType) ==
    LET eventLabel ==
            Or(typ, Or(outerType, Or(Get(entry, "record_type"), S("unknown"))))
    IN Block("func-output", Cat(<<"Event: ">>, JSString(eventLabel)), EmptyText, FALSE, FALSE,
             [text |-> Pretty(entry), items |-> <<>>])

MirroredMessage(role, entry) ==
    Obj(<<KV("role", S(role)),
          KV("content", Arr(<<Obj(<<KV("type", S(IF role = "user" THEN "input_text"
                                                                  ELSE "output_text")),
                                    KV("text", Or(Get(entry, "message"), Str(EmptyText)))>>)>>))>>)

MirroredReasoning(entry) ==
    Obj(<<KV("summary", Arr(<<Obj(<<KV("type", S("summary_text")),
                                    KV("text", Or(Get(entry, "text"), Str(EmptyText)))>>)>>))>>)

\* the if / else-if chain of renderJsonl on entry.type: the filter class added,
\* the block built, whether an intervention marker and a sample are recorded
Dispatch(entry, outerType, tsInline, opts) ==
    LET typ == Get(entry, "type")
        Is(kind) == StrEq(typ, kind)
        isUser == StrEq(Get(entry, "role"), "user")
        Out(cls, built, marker, sample) ==
            [cls |-> cls, built |-> built, marker |-> marker, sample |-> sample]
    IN CASE Is("reasoning") ->
              Out("reasoning", renderReasoning(entry, tsInline), FALSE, NoMetrics)
         [] Is("message") ->
              Out(IF isUser THEN "user" ELSE "assistant", renderMessage(entry, tsInline),
                  isUser, NoMetrics)
         [] Is("function_call") ->
              Out(IF isPlanUpdateFunctionCall(entry) THEN "plan" ELSE "func-call",
                  renderFunctionCall(entry, tsInline), FALSE, NoMetrics)
         [] Is("function_call_output") ->
              Out("func-output", renderFunctionOutput(entry, tsInline, opts), FALSE, NoMetrics)
         [] Is("user_message") ->
              Out("user", renderMessage(MirroredMessage("user", entry), tsInline),
                  TRUE, NoMetrics)
         [] Is("agent_message") ->
              Out("assistant", renderMessage(MirroredMessage("assistant", entry), tsInline),
                  FALSE, NoMetrics)
         [] Is("agent_reasoning") ->
              Out("reasoning", renderReasoning(MirroredReasoning(entry), tsInline),
                  FALSE, NoMetrics)
         [] Is("token_count") ->
              Out("usage", renderTokenUsage(entry, tsInline), FALSE, readTokenMetrics(entry))
         [] OTHER ->
              Out("func-output", Built(UnknownEvent(entry, typ, outerType)), FALSE, NoMetrics)

\* the body of the loop after the header test: the filter class, the marker
\* and the sample are recorded, then the block is pushed
Record(counted, currentProgress, tsRaw, d) ==
    LET marked == [counted EXCEPT
                     !.availableFilterClasses = @ \cup {d.cls},
                     !.userInterventionProgress =
                         IF d.marker THEN Append(@, currentProgress) ELSE @,
                     !.tokenSeries =
                         IF d.sample.some
                         THEN Append(@, [ts |-> tsRaw, progress |-> currentProgress,
                                         inputTokens |-> d.sample.inputTokens,
                                         outputTokens |-> d.sample.outputTokens,
                                         turnPriceUsd |-> d.sample.turnPriceUsd,
                                         cumulative |-> d.sample.cumulative,
                                         cumulativePriceUsd |-> d.sample.cumulativePriceUsd])
                         ELSE @]
    IN IF d.built.threw THEN [marked EXCEPT !.threw = TRUE]
       ELSE [marked EXCEPT !.blocks = Append(@, d.built.block)]

\* Entry with a fault: the builders read the envelope itself
EntryOfEnvelope(rawObj, isWrapped) == rawObj

\* the record the header test and the builders read: rawObj.payload || {} in
\* the wrapped shape, rawObj in the legacy shape
Entry(rawObj, isWrapped) ==
    IF isWrapped THEN Or(Get(rawObj, "payload"), Obj(<<>>)) ELSE rawObj

\* Fallback with a fault: the line that failed to parse is counted as a record
FallbackCounted(st, line) ==
    [st EXCEPT !.blocks = Append(@, UnparsedLine(line)), !.progress = @ + 1]

\* the catch around JSON.parse: the line is pushed as it is, and the loop continues
Fallback(st, line) ==
    [st EXCEPT !.blocks = Append(@, UnparsedLine(line))]

\* CurrentProgress with a fault: the index is read after progress is incremented
CurrentProgressAfterIncrement(st) == st.progress + 1

\* const currentProgress = progress, read before progress += 1
CurrentProgress(st) == st.progress

\* IsSessionHeader with a fault: a header already taken does not count
IsSessionHeaderAgain(done, entry) ==
    \/ Truthy(Get(entry, "timestamp"))
    \/ Truthy(Get(entry, "git"))
    \/ Truthy(Get(entry, "instructions"))

\* !sessionHeaderDone && (entry.timestamp || entry.git || entry.instructions)
IsSessionHeader(done, entry) ==
    /\ ~done
    /\ \/ Truthy(Get(entry, "timestamp"))
       \/ Truthy(Get(entry, "git"))
       \/ Truthy(Get(entry, "instructions"))

\* the body of the loop once JSON.parse has returned or thrown
StepParsed(st, line, parsed, opts) ==
    LET rawObj == parsed.value
        wrapped == IF st.wrappedMode = "null" THEN DetectWrapped(rawObj) ELSE st.wrappedMode
        currentProgress == CurrentProgress(st)
        counted == [st EXCEPT !.wrappedMode = wrapped, !.progress = st.progress + 1]
        isWrapped == wrapped = "true"
        outerType == IF isWrapped THEN Or(Get(rawObj, "type"), Null) ELSE Null
        entry == Entry(rawObj, isWrapped)
        tsInline == IF isWrapped THEN buildTimestampInline(Get(rawObj, "timestamp"))
                    ELSE EmptyText
        tsRaw == Or(Get(rawObj, "timestamp"), Str(EmptyText))
        isHeader == IsSessionHeader(st.sessionHeaderDone, entry)
    IN IF line = "" THEN st
       ELSE IF ~parsed.ok THEN Fallback(st, line)
       ELSE IF ReadThrows(rawObj) THEN [counted EXCEPT !.threw = TRUE]
       ELSE IF isHeader
            THEN [counted EXCEPT !.blocks = Append(@, renderSessionHeader(entry, tsInline)),
                                 !.sessionHeaderDone = TRUE]
       ELSE Record(counted, currentProgress, tsRaw, Dispatch(entry, outerType, tsInline, opts))

\* one iteration of the for-of loop of renderJsonl over a raw line
StepLine(st, lineRaw, opts) ==
    StepParsed(st, trim(lineRaw), JSON_parse(<<trim(lineRaw)>>), opts)

RECURSIVE RunLoop(_, _, _, _)
\* the for-of loop of renderJsonl from line i on; an exception ends it
RunLoop(st, lines, i, opts) ==
    IF st.threw \/ i > Len(lines) THEN st
    ELSE RunLoop(StepLine(st, lines[i], opts), lines, i + 1, opts)

Placeholder ==
    [kind |-> "session", cls |-> "", label |-> <<"No events rendered">>, ts |-> EmptyText,
     collapsible |-> FALSE, collapsed |-> FALSE, applyPatch |-> FALSE, rawB64 |-> <<>>,
     text |-> <<"The input file did not include renderable lines.">>, items |-> <<>>]

FILTER_OPTIONS ==
    <<[cls |-> "user", checked |-> TRUE], [cls |-> "assistant", checked |-> TRUE],
      [cls |-> "reasoning", checked |-> TRUE], [cls |-> "func-call", checked |-> TRUE],
      [cls |-> "func-output", checked |-> TRUE], [cls |-> "plan", checked |-> TRUE],
      [cls |-> "usage", checked |-> FALSE]>>

Categories == {FILTER_OPTIONS[i].cls : i \in 1..Len(FILTER_OPTIONS)}

DEFAULT_VIEWER_OPTIONS ==
    [collapseOutputCharThreshold |-> 15000, collapseOutputLineThreshold |-> 300,
     showTokenUsage |-> FALSE, showCumulativeCostOverlay |-> TRUE]

\* the numbers of the query strings, as fractions num / den
Fraction(num, den) == [finite |-> TRUE, num |-> num, den |-> den]
NotFinite == [finite |-> FALSE, num |-> 0, den |-> 1]

\* Number(s) for the strings a query parameter may hold: a decimal text, white
\* space around it not counting; Infinity for the word and for an overflow;
\* NaN, which is not finite either, for any other text
QueryNumbers ==
    ("4" :> Fraction(4, 1)) @@ ("3" :> Fraction(3, 1)) @@ (" 2 " :> Fraction(2, 1))
    @@ ("1" :> Fraction(1, 1)) @@ ("0" :> Fraction(0, 1)) @@ ("-5" :> Fraction(-5, 1))
    @@ ("12.7" :> Fraction(127, 10)) @@ ("0.5" :> Fraction(1, 2))
    @@ ("-0.5" :> Fraction(-1, 2)) @@ ("1e3" :> Fraction(1000, 1))
    @@ ("Infinity" :> NotFinite) @@ ("1e400" :> NotFinite)

Number(value) ==
    IF Len(value.v) = 1 /\ value.v[1] \in DOMAIN QueryNumbers
    THEN QueryNumbers[value.v[1]]
    ELSE NotFinite

Math_floor(x) == x.num \div x.den

\* value.trim().toLowerCase() for the strings a query parameter may hold
LowerTrimmed ==
    ("TRUE" :> "true") @@ (" yes " :> "yes") @@ ("No" :> "no") @@ ("true" :> "true")
    @@ ("1" :> "1") @@ ("false" :> "false") @@ ("0" :> "0") @@ ("on" :> "on") @@ ("" :> "")

toBoolean(value, fallback) ==
    IF value.t = "boolean" THEN value.v
    ELSE IF value.t = "string" /\ Len(value.v) = 1 /\ value.v[1] \in DOMAIN LowerTrimmed
         THEN (IF LowerTrimmed[value.v[1]] \in {"true", "1", "yes"} THEN TRUE
               ELSE IF LowerTrimmed[value.v[1]] \in {"false", "0", "no"} THEN FALSE
               ELSE fallback)
         ELSE fallback

\* toNumber with a fault: a blank string is read as a number
toNumberOfBlank(value, fallback) ==
    IF value.t = "number" THEN Fraction(value.v, 1)
    ELSE IF value.t = "string" /\ IsBlankText(value.v) THEN Fraction(0, 1)
    ELSE IF value.t = "string" /\ Number(value).finite THEN Number(value)
    ELSE fallback

toNumber(value, fallback) ==
    IF value.t = "number" THEN Fraction(value.v, 1)
    ELSE IF value.t = "string" /\ ~IsBlankText(value.v) /\ Number(value).finite
         THEN Number(value)
         ELSE fallback

\* init(): Math.max(1, Math.floor(toNumber(params.get(name), fallback)))
Threshold(value, fallback) ==
    IF 1 >= Math_floor(toNumber(value, Fraction(fallback, 1))) THEN 1
    ELSE Math_floor(toNumber(value, Fraction(fallback, 1)))

\* init(): the options read from the query string; params.get gives null for
\* a parameter that is not there
ViewerOptions(params) ==
    [collapseOutputCharThreshold |->
         Threshold(params.collapseOutputCharThreshold,
                   DEFAULT_VIEWER_OPTIONS.collapseOutputCharThreshold),
     collapseOutputLineThreshold |->
         Threshold(params.collapseOutputLineThreshold,
                   DEFAULT_VIEWER_OPTIONS.collapseOutputLineThreshold),
     showTokenUsage |-> toBoolean(params.showTokenUsage, DEFAULT_VIEWER_OPTIONS.showTokenUsage),
     showCumulativeCostOverlay |->
         toBoolean(params.showCumulativeCostOverlay,
                   DEFAULT_VIEWER_OPTIONS.showCumulativeCostOverlay)]

\* a URL with no query string
NoParams ==
    [collapseOutputCharThreshold |-> Null, collapseOutputLineThreshold |-> Null,
     showTokenUsage |-> Null, showCumulativeCostOverlay |-> Null]

\* renderToolbar: the filter checkboxes, one per available class, each with its
\* checked attribute
renderToolbar(showUsage, available) ==
    LET Offered(option) == option.cls \in available
        Chip(option) == [cls |-> option.cls,
                         checked |-> IF option.cls = "usage" THEN showUsage
                                     ELSE option.checked]
    IN SelectSeq2(FILTER_OPTIONS, Offered, Chip)

\* createTokenUsageSvg: the viewBox of the charts and the margins of the plot
width == 440
margin == [top |-> 18, right |-> 16, bottom |-> 42, left |-> 58]
height == 220
plotW == width - margin.left - margin.right
plotH == height - margin.top - margin.bottom

Math_min(numbers) == CHOOSE n \in numbers : \A k \in numbers : n <= k
Math_max(numbers) == CHOOSE n \in numbers : \A k \in numbers : k <= n

\* the progress values the domain takes in besides those of the points: the
\* intervention markers, or the progress of one point when there is none
MarkersOr(interventions, fallback) ==
    IF Len(interventions) > 0 THEN {interventions[i] : i \in 1..Len(interventions)}
    ELSE {fallback}

\* the progress domain with a fault: the samples alone span it
SampleDomain(points, interventions) ==
    LET sampled == {points[i].progress : i \in 1..Len(points)}
    IN [minProgress |-> Math_min(sampled),
        progressSpan |-> Math_max({1, Math_max(sampled) - Math_min(sampled)})]

\* minProgress and progressSpan
ProgressDomain(points, interventions) ==
    LET sampled == {points[i].progress : i \in 1..Len(points)}
        minProgress == Math_min(sampled \cup MarkersOr(interventions, points[1].progress))
        maxProgress ==
            Math_max(sampled \cup MarkersOr(interventions, points[Len(points)].progress))
    IN [minProgress |-> minProgress,
        progressSpan |-> Math_max({1, maxProgress - minProgress})]

\* xPx(progress) as the fraction num / den of a pixel
xPx(at, domain) ==
    [num |-> (margin.left * domain.progressSpan) + ((at - domain.minProgress) * plotW),
     den |-> domain.progressSpan]

\* x.toFixed(2), in hundredths of a pixel
toFixed2(x) == ((2 * 100 * x.num) + x.den) \div (2 * x.den)

\* x < m.left || x > (width - m.right)
OutsidePlot(x) ==
    \/ x.num < margin.left * x.den
    \/ x.num > (width - margin.right) * x.den

\* [...new Set(values)]: the values in the order of their first occurrence
Distinct(values) ==
    SelectSeq([i \in 1..Len(values) |-> [at |-> i, v |-> values[i]]],
              LAMBDA e : \A j \in 1..(e.at - 1) : values[j] # e.v)

\* interventionLines: the x of the line of each distinct marker, but of those
\* that fall outside the plot
InterventionLines(interventions, domain) ==
    LET marks == Distinct(interventions)
        inside == SelectSeq(marks, LAMBDA e : ~OutsidePlot(xPx(e.v, domain)))
    IN [i \in 1..Len(inside) |->
           [marker |-> inside[i].v, x |-> toFixed2(xPx(inside[i].v, domain))]]

\* hasCumulativeData
hasCumulativeData(points) == \E i \in 1..Len(points) : points[i].cumulative

\* createTokenUsageSvg with a fault: one point is enough for a chart
createTokenUsageSvgFromOnePoint(points, interventions) ==
    IF Len(points) < 1 \/ plotW <= 0 \/ plotH <= 0
    THEN [drawn |-> FALSE, points |-> points, interventions |-> interventions,
          interventionLines |-> <<>>, overlayOffered |-> FALSE]
    ELSE [drawn |-> TRUE, points |-> points, interventions |-> interventions,
          interventionLines |->
              InterventionLines(interventions, ProgressDomain(points, interventions)),
          overlayOffered |-> hasCumulativeData(points)]

\* createTokenUsageSvg: "" unless there are two points or more; else the
\* charts with their intervention lines and, in the legend, the checkbox of
\* the cumulative overlay when a point has a cumulative cost
createTokenUsageSvg(points, interventions) ==
    IF Len(points) < 2 \/ plotW <= 0 \/ plotH <= 0
    THEN [drawn |-> FALSE, points |-> points, interventions |-> interventions,
          interventionLines |-> <<>>, overlayOffered |-> FALSE]
    ELSE [drawn |-> TRUE, points |-> points, interventions |-> interventions,
          interventionLines |->
              InterventionLines(interventions, ProgressDomain(points, interventions)),
          overlayOffered |-> hasCumulativeData(points)]

\* the document renderJsonl returns once its loop has ended without an exception
Finish(st, opts) ==
    LET all == IF Len(st.blocks) = 0 THEN <<Placeholder>> ELSE st.blocks
    IN [kind |-> "rendered",
        chart |-> createTokenUsageSvg(st.tokenSeries, st.userInterventionProgress),
        toolbar |-> renderToolbar(opts.showTokenUsage, st.availableFilterClasses),
        blocks |-> SelectSeq(all, LAMBDA b : b.kind # "empty")]

\* showError: the error document, with no chart, no toolbar and no block
ErrorPage ==
    [kind |-> "error", chart |-> createTokenUsageSvg(<<>>, <<>>), toolbar |-> <<>>,
     blocks |-> <<>>]

LoadingPage ==
    [kind |-> "loading", chart |-> createTokenUsageSvg(<<>>, <<>>), toolbar |-> <<>>,
     blocks |-> <<>>]

\* renderJsonl(jsonlText, sourcePath, options) as init() sees it: the document,
\* or the error document its catch shows when renderJsonl raises
renderJsonl(lines, opts) ==
    LET st == RunLoop(LoopStart, lines, 1, opts)
    IN IF st.threw THEN ErrorPage ELSE Finish(st, opts)

-----------------------------------------------------------------------------
(* The filter state controller *)

NoStore == [kind |-> "none", state |-> [c \in {} |-> TRUE]]
Stored(state) == [kind |-> "json", state |-> state]

\* the checkboxes as rendered: class |-> checked attribute
RenderedChecks(toolbar) ==
    [c \in {toolbar[i].cls : i \in 1..Len(toolbar)} |->
        (CHOOSE chip \in {toolbar[i] : i \in 1..Len(toolbar)} : chip.cls = c).checked]

\* loadFilterState with a fault: a box with no stored value is unchecked
loadFilterStateMissingUnchecked(boxes, defaultUsageVisible, stored, available) ==
    LET state == IF available /\ stored.kind = "json" THEN stored ELSE NoStore
    IN [c \in DOMAIN boxes |->
          IF c = "usage" THEN defaultUsageVisible
          ELSE state.kind = "json" /\ c \in DOMAIN state.state /\ state.state[c]]

\* loadFilterState with a fault: the usage box is restored like the others
loadFilterStateUsageRestored(boxes, defaultUsageVisible, stored, available) ==
    LET state == IF available /\ stored.kind = "json" THEN stored ELSE NoStore
    IN [c \in DOMAIN boxes |->
          IF state.kind = "json" /\ c \in DOMAIN state.state THEN state.state[c]
          ELSE IF c = "usage" THEN defaultUsageVisible
          ELSE boxes[c]]

\* loadFilterState(defaultUsageVisible): the checkboxes after the stored state
\* is merged in; a store that cannot be read leaves state null
loadFilterState(boxes, defaultUsageVisible, stored, available) ==
    LET state == IF available /\ stored.kind = "json" THEN stored ELSE NoStore
    IN [c \in DOMAIN boxes |->
          IF c = "usage" THEN defaultUsageVisible
          ELSE IF state.kind = "json" /\ c \in DOMAIN state.state THEN state.state[c]
          ELSE boxes[c]]

\* applyFilterState: body has hide-<class> exactly for the unchecked boxes
applyFilterState(boxes, bodyClasses) ==
    (bodyClasses \ DOMAIN boxes) \cup {c \in DOMAIN boxes : ~boxes[c]}

\* saveFilterState with a fault: the checkboxes are merged into the stored state
saveFilterStateMerged(boxes, stored, available) ==
    IF available THEN Stored(boxes @@ stored.state) ELSE stored

\* saveFilterState: the stored state is the checkboxes; a failing setItem is ignored
saveFilterState(boxes, stored, available) ==
    IF available THEN Stored(boxes) ELSE stored

-----------------------------------------------------------------------------
(* The state machine *)

\* the locals of renderJsonl as one record
Locals ==
    [blocks |-> blocks, availableFilterClasses |-> availableFilterClasses,
     tokenSeries |-> tokenSeries, userInterventionProgress |-> userInterventionProgress,
     sessionHeaderDone |-> sessionHeaderDone, wrappedMode |-> wrappedMode,
     progress |-> progress, threw |-> FALSE]

SetLocals(st) ==
    /\ blocks' = st.blocks
    /\ availableFilterClasses' = st.availableFilterClasses
    /\ tokenSeries' = st.tokenSeries
    /\ userInterventionProgress' = st.userInterventionProgress
    /\ sessionHeaderDone' = st.sessionHeaderDone
    /\ wrappedMode' = st.wrappedMode
    /\ progress' = st.progress

\* JSON.stringify(x) for a value JSON.parse reads: the JSON texts of the model
\* are in the form JSON.stringify writes
Stringify(table, x) == (CHOOSE e \in table : e.value = x).text

JSON_stringify(x) == Stringify(JsonTable, x)

\* the text between the first and the last line that is not blank
Trimmed(lines) ==
    LET kept == {i \in 1..Len(lines) : trim(lines[i]) # ""}
        first == CHOOSE i \in kept : \A j \in kept : i <= j
        last == CHOOSE i \in kept : \A j \in kept : j <= i
    IN IF kept = {} THEN EmptyText
       ELSE [i \in 1..(last - first + 1) |-> trim(lines[first + i - 1])]

\* normalizeSessionText once JSON.parse has returned or thrown on the trimmed text
NormalizedText(lines, parsed) ==
    IF ~parsed.ok THEN lines
    ELSE IF parsed.value.t = "array"
         THEN (IF Len(parsed.value.v) = 0 THEN <<Raw(0, "")>>
               ELSE [i \in 1..Len(parsed.value.v) |-> Raw(0, JSON_stringify(parsed.value.v[i]))])
    ELSE IF IsPlainObject(parsed.value) THEN <<Raw(0, JSON_stringify(parsed.value))>>
    ELSE lines

\* normalizeSessionText with a fault: a text of several lines is left as it is
normalizeOneLineText(lines) ==
    IF Len(Trimmed(lines)) # 1 \/ Trimmed(lines) = EmptyText THEN lines
    ELSE NormalizedText(lines, JSON_parse(Trimmed(lines)))

\* normalizeSessionText(rawText), on the lines of the text: a single JSON array
\* becomes one line per element, a single JSON object one line
normalizeSessionText(lines) ==
    IF Trimmed(lines) = EmptyText THEN lines
    ELSE NormalizedText(lines, JSON_parse(Trimmed(lines)))

NoChecks == [c \in {} |-> TRUE]
NeverToggled == [c \in Categories |-> "none"]

\* the fetch result
Fetched(lines) == [ok |-> TRUE, lines |-> lines]
FetchFailed == [ok |-> FALSE, lines |-> <<>>]

\* the lines of a text
RawLines(text) == [i \in 1..Len(text) |-> Raw(0, text[i])]

Loaded(lines) == [ok |-> TRUE, lines |-> lines]
NotLoaded == [ok |-> FALSE, lines |-> <<>>]

\* init(): the inline base64 payload once base64ToUtf8 has returned or thrown
FromBase64(decoded) ==
    IF decoded.ok THEN Loaded(RawLines(TextOfUnits(decoded.units))) ELSE NotLoaded

\* SourceText with a fault: the inline text is taken before the base64 payload
SourceTextInlineFirst(src) ==
    IF src.fetch.ok THEN Loaded(src.fetch.lines)
    ELSE IF src.inline # EmptyText THEN Loaded(RawLines(src.inline))
    ELSE IF Len(src.b64) > 0 THEN FromBase64(base64ToUtf8(src.b64))
    ELSE NotLoaded

\* init(): sourceText is the fetched text, else the inline base64 payload
\* decoded, else the inline text, else the fetch error is thrown again
SourceText(src) ==
    IF src.fetch.ok THEN Loaded(src.fetch.lines)
    ELSE IF Len(src.b64) > 0 THEN FromBase64(base64ToUtf8(src.b64))
    ELSE IF src.inline # EmptyText THEN Loaded(RawLines(src.inline))
    ELSE NotLoaded

\* the blocks of the page that can be collapsed, each as its builder left it
AsBuilt(shown) ==
    [i \in {j \in 1..Len(shown) : shown[j].collapsible} |-> shown[i].collapsed]

\* the .toggle button of a block: its aria-expanded attribute and its text
Button(ariaExpanded, textContent) ==
    [ariaExpanded |-> ariaExpanded, textContent |-> textContent]

\* the buttons of the collapsible blocks as their builders write them:
\* aria-expanded='true' and Collapse in a reasoning and in an apply-patch
\* block, ariaExpanded and toggleLabel, both from isLarge, in an output block
ButtonsAsBuilt(shown) ==
    [i \in {j \in 1..Len(shown) : shown[j].collapsible} |->
        IF shown[i].cls = "func-output" /\ shown[i].collapsed
        THEN Button("false", "Expand")
        ELSE Button("true", "Collapse")]

NoCopy == [via |-> "none", units |-> <<>>]

\* the page before init() has its source text
Start(sources, opts) ==
    /\ source \in sources
    /\ options \in opts
    /\ doc = <<>>
    /\ pc = "start"
    /\ idx = 0
    /\ blocks = <<>>
    /\ availableFilterClasses = {}
    /\ tokenSeries = <<>>
    /\ userInterventionProgress = <<>>
    /\ sessionHeaderDone = FALSE
    /\ wrappedMode = "null"
    /\ progress = 0
    /\ page = LoadingPage
    /\ checked = NoChecks
    /\ hidden = {}
    /\ collapsedNow = <<>>
    /\ toggles = <<>>
    /\ clipboard = NoCopy

\* init() up to the call of renderJsonl: the options are read from the query
\* string, the source text is fetched, or taken from the inline payload, and
\* normalised; without a source the catch shows the error document
LoadSource ==
    /\ pc = "start"
    /\ LET chosen == SourceText(source)
       IN /\ doc' = IF chosen.ok THEN normalizeSessionText(chosen.lines) ELSE doc
          /\ pc' = IF chosen.ok THEN "loop" ELSE "error"
          /\ page' = IF chosen.ok THEN page ELSE ErrorPage
    /\ options' = ViewerOptions(source.params)
    /\ UNCHANGED <<source, idx, renderVars, uiVars, domVars>>

\* a page load: the fetch has given the document, init() has normalised it
\* and renderJsonl is about to loop over its lines
PageLoad(docs, opts) ==
    /\ \E d \in docs :
          /\ source = [fetch |-> Fetched(d), b64 |-> <<>>, inline |-> EmptyText]
          /\ doc = normalizeSessionText(d)
    /\ collapsedNow = <<>>
    /\ toggles = <<>>
    /\ clipboard = NoCopy
    /\ options \in opts
    /\ pc = "loop"
    /\ idx = 0
    /\ blocks = <<>>
    /\ availableFilterClasses = {}
    /\ tokenSeries = <<>>
    /\ userInterventionProgress = <<>>
    /\ sessionHeaderDone = FALSE
    /\ wrappedMode = "null"
    /\ progress = 0
    /\ page = LoadingPage
    /\ checked = NoChecks
    /\ hidden = {}

\* one iteration of the loop of renderJsonl; an exception leaves renderJsonl
\* and the catch of init() shows the error document
RenderLine ==
    /\ pc = "loop"
    /\ idx < Len(doc)
    /\ LET st == StepLine(Locals, doc[idx + 1], options)
       IN /\ SetLocals(st)
          /\ idx' = idx + 1
          /\ pc' = IF st.threw THEN "error" ELSE "loop"
          /\ page' = IF st.threw THEN ErrorPage ELSE page
    /\ UNCHANGED <<source, doc, options, uiVars, domVars>>

\* the end of renderJsonl and the rest of init(): the document is shown and
\* bindInteractions loads and applies the filter state
RenderFinish ==
    /\ pc = "loop"
    /\ idx = Len(doc)
    /\ LET shown == Finish(Locals, options)
           boxes == loadFilterState(RenderedChecks(shown.toolbar), options.showTokenUsage,
                                    store, storageAvailable)
       IN /\ page' = shown
          /\ collapsedNow' = AsBuilt(shown.blocks)
          /\ toggles' = ButtonsAsBuilt(shown.blocks)
          /\ checked' = boxes
          /\ hidden' = applyFilterState(boxes, hidden)
    /\ blocks' = IF Len(blocks) = 0 THEN <<Placeholder>> ELSE blocks
    /\ pc' = "done"
    /\ fresh' = TRUE
    /\ UNCHANGED <<source, clipboard, doc, options, idx, availableFilterClasses, tokenSeries,
                   userInterventionProgress, sessionHeaderDone, wrappedMode, progress,
                   store, storageAvailable, lastToggled>>

\* the change handler of a filter checkbox: the browser flips the box, then
\* applyFilterState and saveFilterState run
FilterChange(c) ==
    /\ pc = "done"
    /\ c \in DOMAIN checked
    /\ LET boxes == [checked EXCEPT ![c] = ~@]
       IN /\ checked' = boxes
          /\ hidden' = applyFilterState(boxes, hidden)
          /\ store' = saveFilterState(boxes, store, storageAvailable)
          /\ lastToggled' = [lastToggled EXCEPT ![c] = IF boxes[c] THEN "true" ELSE "false"]
          /\ fresh' = FALSE
    /\ UNCHANGED <<source, domVars, doc, options, pc, idx, renderVars, page, storageAvailable>>

\* the blocks of the page a click can reach: a block whose category is
\* filtered out is not displayed
Displayed == {i \in 1..Len(page.blocks) : page.blocks[i].cls \notin hidden}

\* setCollapsed with a fault: a block that is not displayed is left as it is
setCollapsedWhenDisplayed(boxes, collapsed) ==
    [i \in DOMAIN collapsedNow |->
        IF i \in boxes \cap Displayed THEN collapsed ELSE collapsedNow[i]]

\* setCollapsed(el, collapsed) for every element of a set of .collapsible blocks
setCollapsed(boxes, collapsed) ==
    [i \in DOMAIN collapsedNow |-> IF i \in boxes THEN collapsed ELSE collapsedNow[i]]

\* setToggle with a fault: the text of the button is left as it is
setToggleAttributeOnly(boxes, collapsed) ==
    [i \in DOMAIN toggles |->
        IF i \in boxes
        THEN Button(IF collapsed THEN "false" ELSE "true", toggles[i].textContent)
        ELSE toggles[i]]

\* setCollapsed(el, collapsed), the part on el.querySelector(".toggle"), for
\* every element of a set of .collapsible blocks
setToggle(boxes, collapsed) ==
    [i \in DOMAIN toggles |->
        IF i \in boxes
        THEN Button(IF collapsed THEN "false" ELSE "true",
                    IF collapsed THEN "Expand" ELSE "Collapse")
        ELSE toggles[i]]

\* the click handler, on the toggle button of a block
ToggleClick(i) ==
    /\ pc = "done"
    /\ i \in Displayed \cap DOMAIN collapsedNow
    /\ collapsedNow' = setCollapsed({i}, ~collapsedNow[i])
    /\ toggles' = setToggle({i}, ~collapsedNow[i])
    /\ UNCHANGED <<source, clipboard, doc, options, pc, idx, renderVars, page, uiVars>>

\* the click handler, on #collapse-all
CollapseAll ==
    /\ pc = "done"
    /\ collapsedNow' = setCollapsed(DOMAIN collapsedNow, TRUE)
    /\ toggles' = setToggle(DOMAIN collapsedNow, TRUE)
    /\ UNCHANGED <<source, clipboard, doc, options, pc, idx, renderVars, page, uiVars>>

\* the click handler, on #expand-all
ExpandAll ==
    /\ pc = "done"
    /\ collapsedNow' = setCollapsed(DOMAIN collapsedNow, FALSE)
    /\ toggles' = setToggle(DOMAIN collapsedNow, FALSE)
    /\ UNCHANGED <<source, clipboard, doc, options, pc, idx, renderVars, page, uiVars>>

\* what the browser does with the text: navigator.clipboard.writeText
\* resolves, or rejects, or is not there
ClipboardOutcomes == {"resolves", "rejects", "unavailable"}

\* the text handed to the clipboard, and the way it went: writeText, or the
\* textarea that is selected for document.execCommand("copy")
Copied(raw, outcome) ==
    [via |-> IF outcome = "resolves" THEN "writeText" ELSE "execCommand", units |-> raw]

\* the click handler, on the copy button of an apply-patch block
CopyClick(i, outcome) ==
    /\ pc = "done"
    /\ i \in Displayed
    /\ page.blocks[i].applyPatch
    /\ LET raw == base64ToUtf8(page.blocks[i].rawB64)
       IN clipboard' = IF raw.ok THEN Copied(raw.units, outcome) ELSE clipboard
    /\ UNCHANGED <<source, collapsedNow, toggles, doc, options, pc, idx, renderVars, page,
                   uiVars>>

\* the page is loaded again: the same document, the showTokenUsage setting of
\* the new URL, a fresh DOM; localStorage is what outlives the page
Reload(showUsage) ==
    /\ pc \in {"done", "error"}
    /\ options' = [options EXCEPT !.showTokenUsage = showUsage]
    /\ pc' = "loop"
    /\ idx' = 0
    /\ SetLocals(LoopStart)
    /\ page' = LoadingPage
    /\ checked' = NoChecks
    /\ hidden' = {}
    /\ fresh' = FALSE
    /\ collapsedNow' = <<>>
    /\ toggles' = <<>>
    /\ UNCHANGED <<source, clipboard, doc, store, storageAvailable, lastToggled>>

\* what localStorage holds and whether it can be used is the browser's
Browser(available) ==
    /\ store = NoStore
    /\ storageAvailable \in available
    /\ lastToggled = NeverToggled
    /\ fresh = FALSE

Next == RenderLine \/ RenderFinish

\* documents of every kind of line
Init ==
    /\ PageLoad(Docs(GeneralLines, MaxLines), {DEFAULT_VIEWER_OPTIONS})
    /\ Browser({TRUE})

Spec == Init /\ [][Next]_vars

\* documents that end with a token_count record
InitTokens ==
    /\ PageLoad(InContext(TokenLines), {DEFAULT_VIEWER_OPTIONS})
    /\ Browser({TRUE})

SpecTokens == InitTokens /\ [][Next]_vars

\* documents that end with a function_call record
InitPlan ==
    /\ PageLoad(InContext(PlanLines), {DEFAULT_VIEWER_OPTIONS})
    /\ Browser({TRUE})

SpecPlan == InitPlan /\ [][Next]_vars

\* the thresholds of the defaults, and thresholds set by the page
SmallThresholds ==
    [DEFAULT_VIEWER_OPTIONS EXCEPT !.collapseOutputCharThreshold = 4,
                                   !.collapseOutputLineThreshold = 3]

\* documents that end with a function_call_output record
InitOutput ==
    /\ PageLoad(InContext(OutputLines), {DEFAULT_VIEWER_OPTIONS, SmallThresholds})
    /\ Browser({TRUE})

SpecOutput == InitOutput /\ [][Next]_vars

\* documents of inner records, all legacy or all wrapped
InitShape ==
    /\ PageLoad(Docs(LegacyLines, MaxShapeLines) \cup Docs(WrappedLines, MaxShapeLines),
                {DEFAULT_VIEWER_OPTIONS})
    /\ Browser({TRUE})

SpecShape == InitShape /\ [][Next]_vars

\* documents of user messages, token_count records and other lines
InitProgress ==
    /\ PageLoad(Docs(ProgressLines, MaxProgressLines), {DEFAULT_VIEWER_OPTIONS})
    /\ Browser({TRUE})

SpecProgress == InitProgress /\ [][Next]_vars

\* documents of records with and without the fields of a session header
InitHeader ==
    /\ PageLoad(Docs(HeaderLines, MaxHeaderLines), {DEFAULT_VIEWER_OPTIONS})
    /\ Browser({TRUE})

SpecHeader == InitHeader /\ [][Next]_vars

\* documents that end with a function_call or a function_call_output record
InitFields ==
    /\ PageLoad(InContext(PlanLines \cup OutputLines), {DEFAULT_VIEWER_OPTIONS})
    /\ Browser({TRUE})

SpecFields == InitFields /\ [][Next]_vars

MaxSourceLines == 2

\* the source texts: documents of a number record and a malformed line, and a
\* document that halts the render
SourceTexts ==
    {d \in Docs({"0", "oops"}, MaxSourceLines) : Len(d) > 0} \cup {<<"null">>}

\* base64 texts that atob rejects: a character outside the alphabet, and a
\* length that is 1 more than a multiple of 4
BrokenBase64 == {<<12, BadChar, 12, 12>>, <<12, 12, 12, 12, 12>>}

\* what init() may find: the fetch fails or gives a text, possibly empty; the
\* inline elements are empty or hold a source text
Sources ==
    [fetch : {FetchFailed} \cup {Fetched(RawLines(t)) : t \in SourceTexts \cup {EmptyText}},
     b64 : {<<>>} \cup {utf8ToBase64(UnitsOfText(t)) : t \in SourceTexts} \cup BrokenBase64,
     inline : {EmptyText} \cup SourceTexts,
     params : {NoParams}]

InitLoad ==
    /\ Start(Sources, {DEFAULT_VIEWER_OPTIONS})
    /\ Browser({TRUE})

NextLoad == LoadSource \/ RenderLine \/ RenderFinish

SpecLoad == InitLoad /\ [][NextLoad]_vars

\* a JSON value laid out on several lines, the inner lines indented
Laid(x) ==
    [i \in 1..Len(Spread(x)) |->
        Raw(IF 1 < i /\ i < Len(Spread(x)) THEN 2 ELSE 0, Spread(x)[i])]

\* the texts of one JSON value: on one line, on several lines, and on several
\* lines between blank lines
TextsOf(x) == {<<Raw(0, Compact(x))>>, Laid(x), <<Raw(1, "")>> \o Laid(x) \o <<Raw(0, "")>>}

\* the JSONL text of a sequence of JSON values
JsonlOf(d) == [i \in 1..Len(d) |-> Raw(0, Compact(d[i]))]

\* texts that are neither one array nor one object: not JSON at all, an array
\* cut short, a number, blank, and JSONL of several records
OtherTexts ==
    {<<Raw(0, "oops")>>, <<Raw(0, "[")>>, SubSeq(Laid(Arr(<<MsgUser>>)), 1, 2),
     <<Raw(0, "0")>>, <<Raw(0, "null")>>, <<Raw(2, "")>>, <<Raw(0, "")>>}
    \cup {JsonlOf(d) : d \in {e \in Docs(ArrayItems, MaxArrayItems) : Len(e) = 2}}

NormalizeTexts == UNION {TextsOf(x) : x \in DocumentValues} \cup OtherTexts

\* the page fetches a text that is one JSON value, or is not
InitNormalize ==
    /\ Start([fetch : {Fetched(t) : t \in NormalizeTexts}, b64 : {<<>>}, inline : {EmptyText},
              params : {NoParams}],
             {DEFAULT_VIEWER_OPTIONS})
    /\ Browser({TRUE})

SpecNormalize == InitNormalize /\ [][NextLoad]_vars

\* what the query string may hold for a threshold: nothing, a blank, a text
\* that is no number, and numbers that are whole, negative, fractional, padded,
\* in exponent form or not finite
ThresholdParams ==
    {Null, S(""), S(" "), S("abc"), S("12px")} \cup {S(t) : t \in DOMAIN QueryNumbers}

LineThresholdParams == {Null, S(" "), S("3"), S("0.5"), S("Infinity")}

BooleanParams == {Null, S("TRUE"), S(" yes "), S("No"), S("on"), S("1")}

\* the URLs the page is opened with
Queries ==
    [collapseOutputCharThreshold : ThresholdParams,
     collapseOutputLineThreshold : LineThresholdParams,
     showTokenUsage : BooleanParams,
     showCumulativeCostOverlay : {Null}]

\* a document with an output of four characters on two lines
OptionTexts == {<<Raw(0, Compact(FunctionOutput(Str(<<"a", "bc">>))))>>}

InitOptions ==
    /\ Start([fetch : {Fetched(t) : t \in OptionTexts}, b64 : {<<>>}, inline : {EmptyText},
              params : Queries],
             {DEFAULT_VIEWER_OPTIONS})
    /\ Browser({TRUE})

SpecOptions == InitOptions /\ [][NextLoad]_vars

\* documents that end with a function_call record with a command, or a plan
InitCommand ==
    /\ PageLoad(InContext(CommandLines \cup PlanLines), {DEFAULT_VIEWER_OPTIONS})
    /\ Browser({TRUE})

SpecCommand == InitCommand /\ [][Next]_vars

\* documents of records of known and unknown kinds, legacy and wrapped
InitKinds ==
    /\ PageLoad(Docs(KindLines, MaxKindLines), {DEFAULT_VIEWER_OPTIONS})
    /\ Browser({TRUE})

SpecKinds == InitKinds /\ [][Next]_vars

MaxChartLines == 3

\* token_count records: with running totals, without, with a total that is
\* null, with a total that is no number, and one that gives no sample
ChartValues ==
    {TokenCount(Usage(Num(3), Num(7)), Usage(Num(1000000), Num(1000000))),
     TokenCount(Usage(Num(3), Num(7)), Usage(Undefined, Undefined)),
     TokenCount(Usage(Num(3), Num(7)), Usage(Null, Num(1000000))),
     TokenCount(Usage(Num(3), Num(7)), Usage(S("abc"), Num(1000000))),
     TokenCount(Usage(S("abc"), Num(3)), Undefined),
     MsgUser}

ChartLines == {Raw(0, Compact(x)) : x \in ChartValues}

\* documents of token_count records and user messages
InitChart ==
    /\ PageLoad(Docs(ChartLines, MaxChartLines), {DEFAULT_VIEWER_OPTIONS})
    /\ Browser({TRUE})

SpecChart == InitChart /\ [][Next]_vars

MaxUILines == 2

UILines ==
    {Raw(0, Compact(x)) : x \in {MsgUser, MsgAssistant, TokenPlain, Null}}

\* the page in a browser: the user toggles filters and reloads
InitUI ==
    /\ PageLoad(Docs(UILines, MaxUILines), {DEFAULT_VIEWER_OPTIONS})
    /\ Browser(BOOLEAN)

NextUI ==
    \/ RenderLine
    \/ RenderFinish
    \/ \E c \in Categories : FilterChange(c)
    \/ \E showUsage \in BOOLEAN : Reload(showUsage)

SpecUI == InitUI /\ [][NextUI]_vars

\* what localStorage may hold under the key when the page is opened: nothing,
\* the empty text, a text that is not JSON, the JSON text of a value that is
\* no mapping, or a mapping saved for a page that offered other categories
EmptyItem == [kind |-> "empty", state |-> NoStore.state]
BrokenItem == [kind |-> "text", state |-> NoStore.state]
ScalarItem == [kind |-> "value", state |-> NoStore.state]
StoredBefore ==
    {NoStore, EmptyItem, BrokenItem, ScalarItem,
     Stored([c \in {"user"} |-> FALSE]),
     Stored([c \in {"assistant", "plan", "usage"} |-> c # "assistant"]),
     Stored([c \in {"user", "assistant", "reasoning", "usage"} |-> c \in {"user", "usage"}])}

BrowserHolding(items, available) ==
    /\ store \in items
    /\ storageAvailable \in available
    /\ lastToggled = NeverToggled
    /\ fresh = FALSE

MaxStoreLines == 2

StoreLines == {Raw(0, Compact(x)) : x \in {MsgUser, MsgAssistant, TokenPlain}}

\* the page opened in a browser whose localStorage was written before
InitStore ==
    /\ PageLoad(Docs(StoreLines, MaxStoreLines),
                {DEFAULT_VIEWER_OPTIONS, [DEFAULT_VIEWER_OPTIONS EXCEPT !.showTokenUsage = TRUE]})
    /\ BrowserHolding(StoredBefore, BOOLEAN)

NextStore ==
    \/ RenderLine
    \/ RenderFinish
    \/ \E c \in Categories : FilterChange(c)

SpecStore == InitStore /\ [][NextStore]_vars

MaxDomLines == 2

\* commands with a patch of plain text, in either form, and with a patch that
\* holds a lone surrogate or starts with U+FEFF
CopiedCommands ==
    {Arr(<<S("apply_patch"), Str(PatchOf("+a"))>>), Arr(<<S("bash"), Str(PatchOf("+b"))>>),
     Arr(<<S("apply_patch"), S(LoneSurrogate)>>), Arr(<<S("apply_patch"), S(MarkedLine)>>)}

\* lines whose blocks hold a patch or collapse, built expanded or collapsed,
\* and a user message
DomLines ==
    {Raw(0, Compact(FunctionCall("shell", CommandOf(c)))) : c \in CopiedCommands}
    \cup {Raw(0, Compact(x)) : x \in {MsgUser, Reasoning, FunctionOutput(S("abcde"))}}

\* the page in a browser: the user collapses and expands blocks, copies
\* patches and toggles filters
InitDom ==
    /\ PageLoad(Docs(DomLines, MaxDomLines), {SmallThresholds})
    /\ Browser({TRUE})

NextDom ==
    \/ RenderLine
    \/ RenderFinish
    \/ \E c \in Categories : FilterChange(c)
    \/ \E i \in 1..MaxDomLines : ToggleClick(i)
    \/ CollapseAll
    \/ ExpandAll
    \/ \E i \in 1..MaxDomLines, outcome \in ClipboardOutcomes : CopyClick(i, outcome)

SpecDom == InitDom /\ [][NextDom]_vars

-----------------------------------------------------------------------------
(* Properties of renderJsonl over documents of every kind of line *)

\* the lines of a document that are not blank
NonBlank(lines) == {i \in 1..Len(lines) : trim(lines[i]) # ""}

\* the non-blank lines that JSON.parse rejects, and those it reads
Malformed(lines) == {i \in NonBlank(lines) : ~JSON_parse(<<trim(lines[i])>>).ok}
WellFormed(lines) == NonBlank(lines) \ Malformed(lines)

\* the value JSON.parse reads from a line
ValueOf(lineRaw) == JSON_parse(<<trim(lineRaw)>>).value

\* the lines renderJsonl has gone through
Processed == SubSeq(doc, 1, idx)

\* the blocks of the page that show an event, and those that show the session
EventBlocks(p) == {i \in 1..Len(p.blocks) : p.blocks[i].kind = "block"}
HeaderBlocks(p) ==
    {i \in 1..Len(p.blocks) : p.blocks[i].kind = "session" /\ p.blocks[i] # Placeholder}

\* C1: when renderJsonl returns, the page has one block per non-blank line:
\* an event block for each, but for at most one line, which the single
\* session-header block shows.  No non-blank line is left out of the page.
C1_EveryLineHasItsBlock ==
    pc = "done" =>
        /\ Cardinality(HeaderBlocks(page)) <= 1
        /\ Cardinality(EventBlocks(page)) + Cardinality(HeaderBlocks(page))
               = Cardinality(NonBlank(doc))

\* C2: no line, whether JSON.parse rejects it or reads any JSON value from
\* it, raises an exception that ends the render: the error document is never
\* shown in place of the blocks.
C2_NoLineHaltsTheRender == pc # "error"

\* a sequence without its i-th element, and with x put in at position i
Without(seq, i) == SubSeq(seq, 1, i - 1) \o SubSeq(seq, i + 1, Len(seq))
InsertAt(seq, i, x) == SubSeq(seq, 1, i - 1) \o <<x>> \o SubSeq(seq, i, Len(seq))

\* the locals of renderJsonl after a run of its loop over `lines`
LoopOver(lines) == RunLoop(LoopStart, lines, 1, options)

\* the block that shows the text of a line as it is
LiteralBlock(line) ==
    [kind |-> "block", cls |-> "func-output", label |-> <<"Unparsed Line">>, ts |-> EmptyText,
     collapsible |-> FALSE, collapsed |-> FALSE, applyPatch |-> FALSE, rawB64 |-> <<>>, text |-> <<line>>,
     items |-> <<>>]

\* C3: a non-blank line that is not valid JSON gives exactly one block, which
\* carries the text of the line, and changes nothing else: the other blocks,
\* the wire shape, the progress count, the token samples, the intervention
\* markers, the filter classes, the header flag and whether the render is
\* halted are those of the same lines without that line.
C3_MalformedLineIsIsolated ==
    \A i \in Malformed(Processed) :
        LET others == LoopOver(Without(Processed, i))
            before == LoopOver(SubSeq(doc, 1, i - 1))
        IN /\ ~before.threw
           /\ blocks = InsertAt(others.blocks, Len(before.blocks) + 1,
                                LiteralBlock(trim(doc[i])))
           /\ wrappedMode = others.wrappedMode
           /\ progress = others.progress
           /\ tokenSeries = others.tokenSeries
           /\ userInterventionProgress = others.userInterventionProgress
           /\ availableFilterClasses = others.availableFilterClasses
           /\ sessionHeaderDone = others.sessionHeaderDone
           /\ (pc = "error") = others.threw

\* a malformed line between a user message and a token_count record
C3_Witness ==
    /\ pc = "loop" /\ idx = 3
    /\ Malformed(doc) = {2}
    /\ Len(blocks) = 3
    /\ blocks[2] = LiteralBlock("oops")
    /\ userInterventionProgress = <<0>>
    /\ Len(tokenSeries) = 1 /\ tokenSeries[1].progress = 1

\* the first line JSON.parse reads, or 0
FirstParsed(lines) ==
    IF WellFormed(lines) = {} THEN 0
    ELSE CHOOSE i \in WellFormed(lines) : \A j \in WellFormed(lines) : i <= j

\* C10: the wire shape is undecided until a line parses, and from then on it
\* is what the first parsed record says, for every later line: wrapped iff
\* that record is an object with a timestamp member and a payload member.
C10_ShapeDecidedOnceByFirstParsed ==
    LET first == FirstParsed(Processed)
        record == ValueOf(doc[first])
    IN wrappedMode =
          IF first = 0 THEN "null"
          ELSE IF /\ record.t = "object"
                  /\ \E m \in 1..Len(record.v) : record.v[m][1] = "timestamp"
                  /\ \E m \in 1..Len(record.v) : record.v[m][1] = "payload"
               THEN "true" ELSE "false"

\* a malformed line, then a wrapped record decides, then a legacy record
C10_Witness ==
    /\ idx = 3 /\ pc = "loop"
    /\ 1 \in Malformed(doc)
    /\ ValueOf(doc[2]) = Wrapped(Timestamp(2), "response_item", MsgUser)
    /\ ValueOf(doc[3]) = MsgUser
    /\ wrappedMode = "true"

-----------------------------------------------------------------------------
(* Properties of the two wire shapes *)

\* the document whose lines are the envelopes of the records of `lines`
Enveloping(lines) ==
    [i \in 1..Len(lines) |-> Raw(0, Compact(Envelope(ValueOf(lines[i]))))]

\* a record with a timestamp member and a payload member
HasBothKeys(record) ==
    /\ record.t = "object"
    /\ \E m \in 1..Len(record.v) : record.v[m][1] = "timestamp"
    /\ \E m \in 1..Len(record.v) : record.v[m][1] = "payload"

\* two blocks of the same category, with the same text content and the same
\* collapse state
SameContent(a, b) ==
    /\ a.kind = b.kind /\ a.cls = b.cls
    /\ a.text = b.text /\ a.items = b.items
    /\ a.collapsible = b.collapsible /\ a.collapsed = b.collapsed
    /\ a.applyPatch = b.applyPatch

\* the rendered page of the document shows, block for block, what the page of
\* its wrapped form shows
SameAsEnveloped ==
    LET wrapped == renderJsonl(Enveloping(doc), options)
    IN /\ wrapped.kind = "rendered"
       /\ Len(wrapped.blocks) = Len(page.blocks)
       /\ \A i \in 1..Len(page.blocks) : SameContent(page.blocks[i], wrapped.blocks[i])

\* the document is made of inner records in the legacy shape
IsLegacyDoc == \A i \in 1..Len(doc) : doc[i] \in LegacyLines

\* C4 as stated: for every inner record R, the legacy document R and the
\* wrapped document { timestamp, type, payload: R } give blocks of the same
\* category with the same text content.
C4_ShapesAgreeForEveryRecord ==
    pc = "done" /\ IsLegacyDoc => SameAsEnveloped

\* C4, amended: the legacy document and the wrapped document give blocks of
\* the same category with the same text content when every inner record is a
\* JSON object and the first one does not itself have both a timestamp and a
\* payload member (which would make the legacy document read as wrapped).
C4_ShapesAgree ==
    /\ pc = "done" /\ IsLegacyDoc
    /\ \A i \in 1..Len(doc) : ValueOf(doc[i]).t = "object"
    /\ Len(doc) > 0 => ~HasBothKeys(ValueOf(doc[1]))
    => SameAsEnveloped

\* the user message of the claim, in the legacy shape, shown as a user block
\* with the text hi, as its wrapped form is
C4_Witness ==
    /\ pc = "done"
    /\ Len(doc) = 1 /\ ValueOf(doc[1]) = MsgUser
    /\ Len(page.blocks) = 1
    /\ page.blocks[1].cls = "user" /\ page.blocks[1].text = <<"hi">>
    /\ renderJsonl(Enveloping(doc), options).blocks[1].cls = "user"
    /\ renderJsonl(Enveloping(doc), options).blocks[1].text = <<"hi">>

-----------------------------------------------------------------------------
(* Properties of the token analytics *)

\* the record the builders read from a line, in the shape the document has
Normalized(lineRaw) == Entry(ValueOf(lineRaw), wrappedMode = "true")

\* the processed lines that hold a token_count record
TokenRecords ==
    {i \in WellFormed(Processed) : StrEq(Get(Normalized(doc[i]), "type"), "token_count")}

\* info.last_token_usage[key] of a token_count record, undefined when absent
LastCounter(record, key) == Get(Get(Get(record, "info"), "last_token_usage"), key)

\* a JSON number, or a string that spells one
Numeric(x) ==
    \/ x.t = "number"
    \/ x.t = "string" /\ Len(x.v) = 1 /\ x.v[1] \in DOMAIN NumericStrings

UsageBlocks == {i \in 1..Len(blocks) : blocks[i].kind = "block" /\ blocks[i].cls = "usage"}

\* C5: every token_count record gives one usage block, and it gives a sample
\* if and only if its last-call input_tokens and output_tokens are both
\* numeric: a record with a counter that is absent, null, a boolean, a
\* non-numeric or empty string, an array or an object gives no sample.
C5_SampleIffCountersNumeric ==
    pc # "error" =>
        /\ Cardinality(UsageBlocks) = Cardinality(TokenRecords)
        /\ Len(tokenSeries) =
              Cardinality({i \in TokenRecords :
                              /\ Numeric(LastCounter(Normalized(doc[i]), "input_tokens"))
                              /\ Numeric(LastCounter(Normalized(doc[i]), "output_tokens"))})

\* C6: the turn cost of every sample is inputTokens x 1.75 / 1,000,000 plus
\* outputTokens x 14.00 / 1,000,000 dollars, that is 175 and 1400 micro-cents
\* per token; 1,000,000 input tokens alone cost 1.75 dollars and 1,000,000
\* output tokens alone cost 14.00 dollars.
C6_TurnCost ==
    \A k \in 1..Len(tokenSeries) :
        LET sample == tokenSeries[k]
        IN /\ sample.turnPriceUsd = (sample.inputTokens * 175) + (sample.outputTokens * 1400)
           /\ sample.inputTokens = 1000000 /\ sample.outputTokens = 0
                 => sample.turnPriceUsd = 175000000
           /\ sample.inputTokens = 0 /\ sample.outputTokens = 1000000
                 => sample.turnPriceUsd = 1400000000

\* the sample of a record with 0 input and 1,000,000 output tokens, after a
\* user message
C6_Witness ==
    /\ pc = "done" /\ Len(doc) = 2
    /\ LastCounter(ValueOf(doc[2]), "input_tokens") = Num(0)
    /\ LastCounter(ValueOf(doc[2]), "output_tokens") = Num(1000000)
    /\ Len(tokenSeries) = 1
    /\ tokenSeries[1].progress = 1
    /\ tokenSeries[1].turnPriceUsd = 1400000000

-----------------------------------------------------------------------------
(* Properties of the plan block *)

\* the record of the last line of the document, and the block it is shown as
LastRecord == ValueOf(doc[Len(doc)])
LastBlock == blocks[Len(blocks)]

\* what the arguments of a call decode to: an object as it is, a string
\* through JSON.parse; undefined when they decode to nothing
Decoded(arguments) ==
    IF arguments.t \in {"object", "array"} THEN arguments
    ELSE IF arguments.t = "string" /\ JSON_parse(arguments.v).ok
         THEN JSON_parse(arguments.v).value
         ELSE Undefined

\* the last line is an update_plan call whose arguments decode to a non-array
\* object, with a list as plan, or no plan
IsPlanCall ==
    /\ Len(doc) > 0 /\ Len(doc) \in WellFormed(doc)
    /\ StrEq(Get(LastRecord, "type"), "function_call")
    /\ StrEq(Get(LastRecord, "name"), "update_plan")
    /\ Decoded(Get(LastRecord, "arguments")).t = "object"
    /\ Get(Decoded(Get(LastRecord, "arguments")), "plan").t \in {"array", "undefined"}

\* the elements of the plan of the last line
PlanOfCall ==
    LET plan == Get(Decoded(Get(LastRecord, "arguments")), "plan")
    IN IF plan.t = "array" THEN plan.v ELSE <<>>

DoneMark == "&#x2705;"
PendingMark == "&#x23F3;"
TodoMark == "&#x2610;"

\* the status and the step of a plan element, "" when it has none
StatusOf(item) ==
    IF Get(item, "status").t = "string" /\ Len(Get(item, "status").v) = 1
    THEN Get(item, "status").v[1] ELSE ""
StepOf(item) == IF Get(item, "step").t = "string" THEN Get(item, "step").v ELSE EmptyText

\* the last block is a plan block whose checklist has one entry per element
\* of the plan, in order, marked by Mark
ChecklistBy(Mark(_)) ==
    /\ pc = "done"
    /\ LastBlock.kind = "block" /\ LastBlock.cls = "plan"
    /\ Len(LastBlock.items) = Len(PlanOfCall)
    /\ \A k \in 1..Len(PlanOfCall) :
          /\ LastBlock.items[k].step = StepOf(PlanOfCall[k])
          /\ LastBlock.items[k].sym = Mark(PlanOfCall[k])

\* completed is done, in_progress is pending, every other status is to do
MarkAsWritten(item) ==
    IF StatusOf(item) = "completed" THEN DoneMark
    ELSE IF StatusOf(item) = "in_progress" THEN PendingMark
    ELSE TodoMark

\* the same, whatever the case of the letters of the status
MarkAnyCase(item) ==
    IF StatusOf(item) \in {"completed", "COMPLETED", "Completed"} THEN DoneMark
    ELSE IF StatusOf(item) \in {"in_progress", "In_Progress"} THEN PendingMark
    ELSE TodoMark

-----------------------------------------------------------------------------
(* Properties of the function output block *)

\* the last line is a function_call_output record that has an output
IsOutputRecord ==
    /\ Len(doc) > 0 /\ Len(doc) \in WellFormed(doc)
    /\ StrEq(Get(LastRecord, "type"), "function_call_output")
    /\ Get(LastRecord, "output").t # "undefined"

\* the last block is a collapsible function output block, collapsed exactly
\* when Large holds of the characters and the lines of its body
OutputBlockBy(Large(_, _)) ==
    /\ LastBlock.kind = "block" /\ LastBlock.cls = "func-output"
    /\ LastBlock.label = <<"Function Output">>
    /\ LastBlock.collapsible
    /\ LastBlock.collapsed <=> Large(Length(LastBlock.text), LineCount(LastBlock.text))
    /\ Length(LastBlock.text) = 20000 /\ options.collapseOutputCharThreshold = 15000
          => LastBlock.collapsed
    /\ Length(LastBlock.text) = 5000 /\ LineCount(LastBlock.text) = 1
       /\ options = DEFAULT_VIEWER_OPTIONS
          => ~LastBlock.collapsed

Exceeds(chars, lines) ==
    \/ chars > options.collapseOutputCharThreshold
    \/ lines > options.collapseOutputLineThreshold

Reaches(chars, lines) ==
    \/ chars >= options.collapseOutputCharThreshold
    \/ lines >= options.collapseOutputLineThreshold

\* C8 as stated: a function_call_output block is collapsible, and starts
\* collapsed if and only if its body has more characters than the character
\* threshold or more lines than the line threshold.
C8_CollapsedIffAboveThreshold ==
    pc = "done" /\ IsOutputRecord => OutputBlockBy(Exceeds)

\* C8, amended: a function_call_output block is collapsible, and starts
\* collapsed if and only if its body has at least as many characters as the
\* character threshold or at least as many lines as the line threshold.
C8_CollapsedIffAtThreshold ==
    pc = "done" /\ IsOutputRecord => OutputBlockBy(Reaches)

\* a body of exactly 15000 characters on one line, under the default
\* thresholds: the block starts collapsed
C8_Witness ==
    /\ pc = "done" /\ IsOutputRecord
    /\ options = DEFAULT_VIEWER_OPTIONS
    /\ Length(LastBlock.text) = 15000 /\ LineCount(LastBlock.text) = 1
    /\ LastBlock.collapsible /\ LastBlock.collapsed

-----------------------------------------------------------------------------
(* Properties of the filter state *)

\* the page has been loaded and no checkbox has changed since
JustLoaded == pc = "done" /\ fresh

\* a category is visible when the body does not hide it, which its checkbox says
VisibleAsChecked == \A c \in DOMAIN checked : (c \notin hidden) = checked[c]

\* on load, the usage category is visible exactly when showTokenUsage is set
UsageFollowsSetting ==
    "usage" \in DOMAIN checked => checked["usage"] = options.showTokenUsage

\* on load, a category other than usage that was ever toggled is visible
\* exactly when its last toggle made it so
KeepsLastToggle ==
    \A c \in DOMAIN checked \ {"usage"} :
        lastToggled[c] # "none" => checked[c] = (lastToggled[c] = "true")

\* C9 as stated: after any toggles and a reload, every category but usage is
\* visible as it was last toggled, and usage is visible as showTokenUsage
\* says, whatever was stored.
C9_FiltersPersist ==
    JustLoaded => VisibleAsChecked /\ UsageFollowsSetting /\ KeepsLastToggle

\* C9, amended: the same, the last toggle being kept when localStorage can be
\* used; when it cannot, the categories other than usage are back at their
\* defaults.
C9_FiltersPersistWhenStored ==
    JustLoaded =>
        /\ VisibleAsChecked
        /\ UsageFollowsSetting
        /\ storageAvailable => KeepsLastToggle
        /\ ~storageAvailable => \A c \in DOMAIN checked \ {"usage"} : checked[c]

\* user was toggled off and usage on, then the page was loaded again without
\* showTokenUsage: user is hidden, usage is hidden, the store still says usage
C9_Witness ==
    /\ JustLoaded /\ storageAvailable
    /\ DOMAIN checked = {"user", "usage"}
    /\ lastToggled["user"] = "false" /\ lastToggled["usage"] = "true"
    /\ store.kind = "json" /\ store.state["usage"]
    /\ ~options.showTokenUsage
    /\ ~checked["user"] /\ ~checked["usage"]
    /\ hidden = {"user", "usage"}

-----------------------------------------------------------------------------
(* Properties of the progress index *)

\* the line of the record of 0-based ordinal p among the records JSON.parse
\* has read, 0 when there is none
RecordAt(p) ==
    LET at == {i \in WellFormed(Processed) :
                  Cardinality({j \in WellFormed(Processed) : j < i}) = p}
    IN IF at = {} THEN 0 ELSE CHOOSE i \in at : TRUE

\* the record of a line is a user-authored message
IsUserAuthored(record) ==
    \/ StrEq(Get(record, "type"), "message") /\ StrEq(Get(record, "role"), "user")
    \/ StrEq(Get(record, "type"), "user_message")

\* a sequence of numbers is strictly increasing
Increasing(seq) == \A a, b \in 1..Len(seq) : a < b => seq[a] < seq[b]

\* C11: progress counts the records read, whatever their kind; the progress
\* index of every sample is the 0-based ordinal of a token_count record and the
\* index of every marker that of a user-authored record; the indices of the
\* samples, and of the markers, are strictly increasing.
C11_ProgressIsRecordOrdinal ==
    /\ progress = Cardinality(WellFormed(Processed))
    /\ \A k \in 1..Len(tokenSeries) :
          /\ RecordAt(tokenSeries[k].progress) # 0
          /\ StrEq(Get(Normalized(doc[RecordAt(tokenSeries[k].progress)]), "type"),
                   "token_count")
    /\ \A k \in 1..Len(userInterventionProgress) :
          /\ RecordAt(userInterventionProgress[k]) # 0
          /\ IsUserAuthored(Normalized(doc[RecordAt(userInterventionProgress[k])]))
    /\ Increasing([k \in 1..Len(tokenSeries) |-> tokenSeries[k].progress])
    /\ Increasing(userInterventionProgress)

\* a malformed line, a token_count record, a user message: the sample has
\* index 0 and the marker index 1, the ordinals among the two records
C11_Witness ==
    /\ pc = "done" /\ Len(doc) = 3
    /\ Malformed(doc) = {1}
    /\ ValueOf(doc[2]) = TokenPlain /\ ValueOf(doc[3]) = MsgUser
    /\ progress = 2
    /\ Len(tokenSeries) = 1 /\ tokenSeries[1].progress = 0
    /\ userInterventionProgress = <<1>>

\* the ordinals of the user-authored records among the records read, in order
UserOrdinals ==
    LET F[i \in 0..Len(Processed)] ==
            IF i = 0 THEN <<>>
            ELSE IF i \in WellFormed(Processed) /\ IsUserAuthored(Normalized(doc[i]))
                 THEN Append(F[i - 1], Cardinality({j \in WellFormed(Processed) : j < i}))
                 ELSE F[i - 1]
    IN F[Len(Processed)]

\* C12: when the render is complete, the markers are the progress indices of
\* the user-authored records, one marker per record and none for any other
\* record.
C12_MarkerPerUserMessage ==
    pc = "done" => userInterventionProgress = UserOrdinals

-----------------------------------------------------------------------------
(* Properties of the decoded fields *)

\* a function_call or a function_call_output record
IsCallOrOutput(record) ==
    \/ StrEq(Get(record, "type"), "function_call")
    \/ StrEq(Get(record, "type"), "function_call_output")

\* C13: building the block of a function_call or function_call_output record
\* never raises, whatever its arguments or output field holds or lacks: the
\* render is never halted at such a record.
C13_FieldNeverRaises ==
    \A i \in WellFormed(Processed) :
        IsCallOrOutput(ValueOf(doc[i])) => ~(pc = "error" /\ i = idx)

-----------------------------------------------------------------------------
(* Properties of source loading *)

\* init() has ended: the page shows a rendered document or the error document
Settled == pc \in {"done", "error"}

\* the page is what renderJsonl gives for the text of these lines
RenderedFrom(lines) == page = renderJsonl(normalizeSessionText(lines), options)

\* the source texts whose base64 form is the inline base64 payload
PayloadTexts == {t \in SourceTexts : utf8ToBase64(UnitsOfText(t)) = source.b64}

FetchedCase == source.fetch.ok => RenderedFrom(source.fetch.lines)

PayloadCase ==
    ~source.fetch.ok => \A t \in PayloadTexts : RenderedFrom(RawLines(t))

InlineCase ==
    ~source.fetch.ok /\ source.b64 = <<>> /\ source.inline # EmptyText
        => RenderedFrom(RawLines(source.inline))

NoSourceCase ==
    ~source.fetch.ok /\ source.b64 = <<>> /\ source.inline = EmptyText
        => page = ErrorPage /\ page.blocks = <<>>

-----------------------------------------------------------------------------
(* Properties of the patch copy *)

\* the apply-patch blocks of the page
PatchBlocks == {i \in 1..Len(page.blocks) : page.blocks[i].applyPatch}

\* the code units of the patch text block i shows
PatchUnits(i) == UnitsOfText(page.blocks[i].text)

\* the patch texts with no lone surrogate and no U+FEFF at the start
IsPlain(units) ==
    /\ \A k \in 1..Len(units) :
          IsHigh(units[k]) => k < Len(units) /\ IsLow(units[k + 1])
    /\ \A k \in 1..Len(units) :
          IsLow(units[k]) => k > 1 /\ IsHigh(units[k - 1])
    /\ (Len(units) > 0 => units[1] # ByteOrderMark)

\* C15: a click on the copy button of an apply-patch block hands the
\* clipboard the literal patch text of the block, decoded from the base64
\* attribute, through writeText when it resolves and through the selection
\* fallback, with the same text, when writeText rejects or is unavailable.
C15_CopyGivesPatchText ==
    [][\A i \in 1..MaxDomLines, outcome \in ClipboardOutcomes :
          CopyClick(i, outcome) => clipboard' = Copied(PatchUnits(i), outcome)]_vars

\* the same, for the patch texts that are plain
CopyGivesPlainPatchText ==
    [][\A i \in 1..MaxDomLines, outcome \in ClipboardOutcomes :
          CopyClick(i, outcome) /\ IsPlain(PatchUnits(i))
              => clipboard' = Copied(PatchUnits(i), outcome)]_vars

\* a patch that is plain has been copied through the fallback
PlainPatchCopied ==
    /\ clipboard.via = "execCommand"
    /\ clipboard.units = UnitsOfText(PatchOf("+a"))

-----------------------------------------------------------------------------
(* Properties of collapse and expand *)

\* the blocks of the page that can collapse
Collapsible == {i \in 1..Len(page.blocks) : page.blocks[i].collapsible}

\* C17: collapse all leaves every collapsible block of the page collapsed and
\* expand all leaves every one expanded, whatever its state before and whether
\* or not a filter hides its category; a filter change leaves the collapse
\* state of every block as it was.
C17_CollapseIgnoresFilters ==
    [][/\ CollapseAll => \A i \in Collapsible : i \in DOMAIN collapsedNow' /\ collapsedNow'[i]
       /\ ExpandAll => \A i \in Collapsible : i \in DOMAIN collapsedNow' /\ ~collapsedNow'[i]
       /\ \A c \in Categories : FilterChange(c) => collapsedNow' = collapsedNow]_vars

\* a reasoning block, built expanded, and an output block, built collapsed and
\* now hidden by its filter, are both collapsed
C17_Witness ==
    /\ pc = "done"
    /\ Len(page.blocks) = 2
    /\ page.blocks[1].cls = "reasoning" /\ ~page.blocks[1].collapsed
    /\ page.blocks[2].cls = "func-output" /\ page.blocks[2].collapsed
    /\ hidden = {"reasoning"}
    /\ Collapsible = {1, 2}
    /\ DOMAIN collapsedNow = {1, 2} /\ collapsedNow[1] /\ collapsedNow[2]

-----------------------------------------------------------------------------
(* Properties of the toolbar *)

\* the categories the toolbar has a checkbox for
OfferedCategories == {page.toolbar[i].cls : i \in 1..Len(page.toolbar)}

\* the categories of the event blocks of the page
BlockCategories == {page.blocks[i].cls : i \in EventBlocks(page)}

\* C16: the categories offered in the toolbar are exactly the categories of
\* the blocks of the page: none without a block, and every one with a block.
C16_ToolbarOffersBlockCategories ==
    pc = "done" => OfferedCategories = BlockCategories

\* the same, for the documents in which JSON.parse reads every line
ToolbarOffersParsedCategories ==
    pc = "done" /\ Malformed(doc) = {} => OfferedCategories = BlockCategories

\* no category is offered without a block
ToolbarOffersNoUnseenCategory ==
    pc = "done" => OfferedCategories \subseteq BlockCategories

-----------------------------------------------------------------------------
(* Properties of the token usage chart *)

\* the distinct intervention markers of the chart of the page
Markers == {page.chart.interventions[i] : i \in 1..Len(page.chart.interventions)}

\* the lines the chart draws for a marker
LinesOf(marker) ==
    {i \in 1..Len(page.chart.interventionLines) :
        page.chart.interventionLines[i].marker = marker}

\* C18: when a chart is produced, every distinct intervention marker has
\* exactly one vertical line, at an x between the left margin and the width
\* less the right margin (in hundredths of a pixel), also when the marker
\* lies before the first sample or after the last one.
C18_MarkersInsidePlot ==
    pc = "done" /\ page.chart.drawn =>
        \A marker \in Markers :
            /\ Cardinality(LinesOf(marker)) = 1
            /\ \A i \in LinesOf(marker) :
                  /\ page.chart.interventionLines[i].x >= 100 * margin.left
                  /\ page.chart.interventionLines[i].x <= 100 * (width - margin.right)

\* a user message before two samples: its line is on the left edge of the plot
C18_Witness ==
    /\ pc = "done" /\ page.chart.drawn
    /\ Len(page.chart.points) = 2
    /\ page.chart.points[1].progress = 1
    /\ page.chart.interventions = <<0>>
    /\ Len(page.chart.interventionLines) = 1
    /\ page.chart.interventionLines[1].x = 100 * margin.left

\* a user message after two samples: its line is on the right edge of the plot
MarkerAfterLastSample ==
    /\ pc = "done" /\ page.chart.drawn
    /\ Len(page.chart.points) = 2
    /\ page.chart.points[2].progress = 1
    /\ page.chart.interventions = <<2>>
    /\ Len(page.chart.interventionLines) = 1
    /\ page.chart.interventionLines[1].x = 100 * (width - margin.right)

-----------------------------------------------------------------------------
(* Properties of the cumulative cost *)

\* info.total_token_usage[key] of a token_count record, undefined when absent
TotalCounter(record, key) == Get(Get(Get(record, "info"), "total_token_usage"), key)

\* the line of the record a sample was taken from
RecordOf(sample) == RecordAt(sample.progress)

\* the cumulative cost of a sample is the cost of the two totals at the rates
\* of the turn cost when both are numeric, and undefined otherwise
CumulativeFromTotals(sample, totalInput, totalOutput) ==
    IF Numeric(totalInput) /\ Numeric(totalOutput)
    THEN /\ sample.cumulative
         /\ sample.cumulativePriceUsd =
                (ToNumber(totalInput).n * 175) + (ToNumber(totalOutput).n * 1400)
    ELSE ~sample.cumulative

\* the same, when the totals are numeric or make Number() give NaN
CumulativeFromCoercedTotals(sample, totalInput, totalOutput) ==
    IF ToNumber(totalInput).finite /\ ToNumber(totalOutput).finite
    THEN /\ sample.cumulative
         /\ sample.cumulativePriceUsd =
                (ToNumber(totalInput).n * 175) + (ToNumber(totalOutput).n * 1400)
    ELSE ~sample.cumulative

\* every token_count record with numeric last-call counters has its sample
SampledWhateverTotals ==
    \A i \in TokenRecords :
        /\ Numeric(LastCounter(Normalized(doc[i]), "input_tokens"))
        /\ Numeric(LastCounter(Normalized(doc[i]), "output_tokens"))
        => \E k \in 1..Len(tokenSeries) : RecordOf(tokenSeries[k]) = i

SomeCumulative == \E k \in 1..Len(tokenSeries) : tokenSeries[k].cumulative

\* C19: the cumulative cost of a sample is computed from the two running
\* totals at the rates of the turn cost when both totals are finite numbers and
\* is undefined otherwise; the sample is recorded either way; the cumulative
\* overlay is offered if and only if some sample has a cumulative cost.
C19_CumulativeCost ==
    pc = "done" =>
        /\ \A k \in 1..Len(tokenSeries) :
              /\ RecordOf(tokenSeries[k]) # 0
              /\ CumulativeFromTotals(
                     tokenSeries[k],
                     TotalCounter(Normalized(doc[RecordOf(tokenSeries[k])]), "input_tokens"),
                     TotalCounter(Normalized(doc[RecordOf(tokenSeries[k])]), "output_tokens"))
        /\ SampledWhateverTotals
        /\ page.chart.overlayOffered <=> SomeCumulative

\* what the code does: the totals go through Number(), and the overlay is
\* offered only in a chart, which takes two samples
CumulativeCostAsCoded ==
    pc = "done" =>
        /\ \A k \in 1..Len(tokenSeries) :
              /\ RecordOf(tokenSeries[k]) # 0
              /\ CumulativeFromCoercedTotals(
                     tokenSeries[k],
                     TotalCounter(Normalized(doc[RecordOf(tokenSeries[k])]), "input_tokens"),
                     TotalCounter(Normalized(doc[RecordOf(tokenSeries[k])]), "output_tokens"))
        /\ SampledWhateverTotals
        /\ page.chart.overlayOffered <=> page.chart.drawn /\ SomeCumulative

\* two samples, the first with no cumulative cost: the overlay is offered
PartialCumulativeData ==
    /\ pc = "done" /\ Len(tokenSeries) = 2
    /\ ~tokenSeries[1].cumulative
    /\ tokenSeries[2].cumulative /\ tokenSeries[2].cumulativePriceUsd = 1575000000
    /\ page.chart.overlayOffered

-----------------------------------------------------------------------------
(* Properties of the function call block *)

\* the arguments of a record decode to an object that is not an array
Decodes(record) == IsParsedObject(parseJsonStringMaybe(Get(record, "arguments")))

\* the command of the decoded arguments, undefined when there is none
CommandIn(record) == Get(parseJsonStringMaybe(Get(record, "arguments")).value, "command")

\* the elements of a command array that hold an envelope
WithEnvelope(cmd) == {i \in 1..Len(cmd.v) : PatchEnvelope(JSString(cmd.v[i])).found}

IsExplicit(cmd) == Len(cmd.v) >= 2 /\ cmd.v[1] = S("apply_patch")

\* the rule that applies to a record: the first of plan, patch, shell, generic
RuleOf(record, cmd) ==
    IF StrEq(Get(record, "name"), "update_plan") /\ Decodes(record) THEN "plan"
    ELSE IF ~Decodes(record) \/ cmd.t # "array" THEN "generic"
    ELSE IF IsExplicit(cmd) \/ WithEnvelope(cmd) # {} THEN "patch"
    ELSE "shell"

\* the patch text of a command array that holds one
PatchTextOf(cmd) ==
    IF IsExplicit(cmd) THEN JSString(cmd.v[2])
    ELSE PatchEnvelope(JSString(cmd.v[Math_min(WithEnvelope(cmd))])).text

\* the block is the one the rule gives for the record
ByRule(rule, block, record, cmd) ==
    CASE rule = "plan" -> block.cls = "plan" /\ ~block.applyPatch
      [] rule = "patch" ->
            /\ block.cls = "func-call" /\ block.applyPatch
            /\ block.label = <<"Apply Patch">>
            /\ block.text = PatchTextOf(cmd)
      [] rule = "shell" ->
            /\ block.cls = "func-call" /\ ~block.applyPatch
            /\ block.text =
                  Cat(<<"$ ">>, Join([i \in 1..Len(cmd.v) |-> JSString(cmd.v[i])], <<" ">>))
      [] OTHER ->
            /\ block.cls = "func-call" /\ ~block.applyPatch
            /\ block.text =
                  IF Decodes(record)
                  THEN Pretty(parseJsonStringMaybe(Get(record, "arguments")).value)
                  ELSE JSString(Get(record, "arguments"))

\* C20: the block of a function_call record is given by the first rule that
\* applies: the plan, for update_plan with arguments that decode to a
\* non-array object; the patch, for a command array in the explicit form
\* apply_patch + text, else with an envelope in some element, the first such
\* element giving the text; the shell form for any other command array; the
\* generic form otherwise.
C20_FirstRuleWins ==
    pc = "done" /\ StrEq(Get(LastRecord, "type"), "function_call") =>
        ByRule(RuleOf(LastRecord, CommandIn(LastRecord)), LastBlock, LastRecord,
               CommandIn(LastRecord))

\* apply_patch, a text and then an envelope: the text is the patch shown
C20_Witness ==
    /\ pc = "done"
    /\ Len(doc) > 0 /\ Len(blocks) > 0
    /\ LastRecord = FunctionCall("shell",
                        CommandOf(Arr(<<S("apply_patch"), S("+a"), Str(PatchOf("+b"))>>)))
    /\ LastBlock.applyPatch /\ LastBlock.text = <<"+a">>

\* two envelopes: the first is the patch shown
FirstOfTwoEnvelopes ==
    /\ pc = "done"
    /\ Len(doc) > 0 /\ Len(blocks) > 0
    /\ LastRecord = FunctionCall("shell",
                        CommandOf(Arr(<<Str(PatchOf("+a")), Str(PatchOf("+b"))>>)))
    /\ LastBlock.applyPatch /\ LastBlock.text = PatchOf("+a")

-----------------------------------------------------------------------------
(* Properties of the chart's degenerate inputs *)

\* C21: the page has a chart if and only if the document gave two token
\* usage samples or more, however many intervention markers it gave.
C21_ChartIffTwoSamples ==
    pc = "done" => (page.chart.drawn <=> Len(tokenSeries) >= 2)

\* two user messages and one sample: two markers, and no chart
C21_Witness ==
    /\ pc = "done"
    /\ Len(tokenSeries) = 1
    /\ Len(userInterventionProgress) = 2
    /\ page.chart.interventions = userInterventionProgress
    /\ ~page.chart.drawn

\* two samples and no marker: a chart
ChartWithoutMarkers ==
    /\ pc = "done"
    /\ Len(tokenSeries) = 2
    /\ Len(userInterventionProgress) = 0
    /\ page.chart.drawn

-----------------------------------------------------------------------------
(* Properties of the dispatch on the kind *)

\* the kinds renderJsonl has a branch for
KnownKinds ==
    {"reasoning", "message", "function_call", "function_call_output", "user_message",
     "agent_message", "agent_reasoning", "token_count"}

IsKnownKind(x) == \E kind \in KnownKinds : StrEq(x, kind)

\* the type of the outer record in the wrapped shape, undefined in the legacy one
OuterKind(lineRaw) ==
    IF wrappedMode = "true" THEN Get(ValueOf(lineRaw), "type") ELSE Undefined

\* the first of the kind, the outer kind and record_type that is truthy, else
\* the literal unknown
KindOrFallback(fields, outerKind) ==
    Or(Get(fields, "type"), Or(outerKind, Or(Get(fields, "record_type"), S("unknown"))))

\* the block shows an event of no known kind: its label and the fields
IsUnknownBlock(block, fields, outerKind) ==
    /\ block.kind = "block" /\ block.cls = "func-output"
    /\ block.label = Cat(<<"Event: ">>, JSString(KindOrFallback(fields, outerKind)))
    /\ block.text = Pretty(fields)

\* the block of a record dispatched on `kind`
DispatchedOn(kind, block, fields, outerKind) ==
    IF IsKnownKind(kind)
    THEN block.kind = "block" /\ block.label \notin {Cat(<<"Event: ">>, <<k>>) : k \in KnownKinds}
    ELSE IsUnknownBlock(block, fields, outerKind)

\* the lines whose record was dispatched: the header is not
Dispatched ==
    {i \in 1..Len(doc) : i <= idx /\ i <= Len(blocks) /\ blocks[i].kind # "session"}

\* C22: the block of a record is chosen by its kind, fields.type, or failing
\* that by the outer kind, then record_type, then the literal unknown; a
\* record of no known kind gets a func-output block labelled with that kind
\* that shows the pretty-printed fields.
C22_DispatchFallsBack ==
    pc # "error" =>
        \A i \in Dispatched :
            DispatchedOn(KindOrFallback(Normalized(doc[i]), OuterKind(doc[i])), blocks[i],
                         Normalized(doc[i]), OuterKind(doc[i]))

\* C22, amended: the block of a record is chosen by fields.type alone; a
\* record whose fields.type is no known kind gets a func-output block that
\* shows the pretty-printed fields, labelled with fields.type, or failing that
\* with the outer kind, then record_type, then the literal unknown.
C22_DispatchOnTypeLabelFallsBack ==
    pc # "error" =>
        \A i \in Dispatched :
            DispatchedOn(Get(Normalized(doc[i]), "type"), blocks[i],
                         Normalized(doc[i]), OuterKind(doc[i]))

\* a wrapped record whose payload has no type and whose record_type is state:
\* the block is labelled with the outer kind
C22_Witness ==
    /\ pc = "done" /\ Len(doc) = 1 /\ Len(blocks) = 1
    /\ ValueOf(doc[1]) = Envelope(StateOnly)
    /\ blocks[1].cls = "func-output"
    /\ blocks[1].label = <<"Event: O">>
    /\ blocks[1].text = Pretty(StateOnly)

-----------------------------------------------------------------------------
(* Properties of the function output body *)

\* the output of a record holds an object, not an array, with an output key of
\* its own: as it is, or as the JSON text of one
CarriesOutput(decoded) == decoded.t = "object" /\ HasOwn(decoded, "output")

\* the nested output when there is one, else the output of the record
NestedElseRaw(output, decoded) ==
    IF CarriesOutput(decoded) THEN Get(decoded, "output") ELSE output

\* a string as it is, any other value as indented JSON
AsText(body) == IF body.t = "string" THEN body.v ELSE Pretty(body)

\* the last block is a function output block that shows the text, measured
\* against the thresholds as it is shown
OutputShows(text) ==
    /\ LastBlock.kind = "block" /\ LastBlock.cls = "func-output"
    /\ LastBlock.text = text
    /\ LastBlock.collapsed <=> Reaches(Length(text), LineCount(text))

BodyOfRecord(output) == AsText(NestedElseRaw(output, Decoded(output)))

\* C23: the body of a function output block is the nested output field when
\* the output of the record decodes to an object, not an array, with an output
\* key of its own, and otherwise the output of the record; a body that is not
\* a string is made a string before it is measured against the thresholds.
C23_BodyNestedElseRaw ==
    pc = "done" /\ IsOutputRecord => OutputShows(BodyOfRecord(Get(LastRecord, "output")))

\* an output that is the JSON text of {"output":12345}: the body is the text
\* 12345, which reaches the threshold of 4 characters
C23_Witness ==
    /\ pc = "done" /\ IsOutputRecord
    /\ options = SmallThresholds
    /\ Get(LastRecord, "output") = S(Compact(NestedOutput(Num(12345))))
    /\ LastBlock.cls = "func-output" /\ LastBlock.text = <<"12345">>
    /\ LastBlock.collapsed

\* an output whose nested output is null: the body is the text null
NestedNullShown ==
    /\ pc = "done" /\ IsOutputRecord
    /\ Get(LastRecord, "output") = NestedOutput(Null)
    /\ LastBlock.text = <<"null">>

\* an output that is the JSON text of an object with no output key: the body
\* is that text, as it was written
RawTextShown ==
    /\ pc = "done" /\ IsOutputRecord
    /\ Get(LastRecord, "output") = S(Compact(Obj(<<KV("x", Num(1))>>)))
    /\ LastBlock.text = <<Compact(Obj(<<KV("x", Num(1))>>))>>

-----------------------------------------------------------------------------
(* Properties of the filter state on load *)

\* the value FILTER_OPTIONS gives a category
CompiledDefault(c) ==
    (CHOOSE i \in 1..Len(FILTER_OPTIONS) : FILTER_OPTIONS[i].cls = c) \in
        {i \in 1..Len(FILTER_OPTIONS) : FILTER_OPTIONS[i].checked}

\* localStorage can be read and holds the JSON text of a mapping with the key
HoldsKey(c) == storageAvailable /\ store.kind = "json" /\ c \in DOMAIN store.state

\* C24: on load, every offered category other than usage takes its stored
\* value when localStorage holds a readable mapping with its key, and its
\* compiled-in default, visible, when the key is missing, nothing is stored,
\* reading raises or the stored text is not valid JSON; usage is hidden unless
\* showTokenUsage asks for it; no failure of localStorage keeps the page from
\* being shown.
C24_LoadMergesStoreWithDefaults ==
    /\ pc = "done" => page.kind = "rendered" /\ VisibleAsChecked
    /\ JustLoaded =>
          /\ DOMAIN checked = {page.toolbar[i].cls : i \in 1..Len(page.toolbar)}
          /\ \A c \in DOMAIN checked \ {"usage"} :
                /\ CompiledDefault(c)
                /\ checked[c] = IF HoldsKey(c) THEN store.state[c] ELSE CompiledDefault(c)
          /\ "usage" \in DOMAIN checked =>
                /\ ~CompiledDefault("usage")
                /\ checked["usage"] = options.showTokenUsage
          /\ ~DEFAULT_VIEWER_OPTIONS.showTokenUsage

\* the store holds usage as visible and assistant as hidden, the page offers
\* assistant and usage and does not ask for usage: assistant is hidden as
\* stored, and usage is hidden
C24_Witness ==
    /\ JustLoaded /\ storageAvailable
    /\ store = Stored([c \in {"user", "assistant", "reasoning", "usage"} |->
                          c \in {"user", "usage"}])
    /\ ~options.showTokenUsage
    /\ DOMAIN checked = {"assistant", "usage"}
    /\ ~checked["assistant"] /\ ~checked["usage"]
    /\ hidden = {"assistant", "usage"}

\* the stored text is not valid JSON: the page is shown with its defaults
BrokenItemGivesDefaults ==
    /\ JustLoaded /\ storageAvailable /\ store = BrokenItem
    /\ page.kind = "rendered"
    /\ DOMAIN checked = {"user", "assistant"}
    /\ checked["user"] /\ checked["assistant"]

\* localStorage raises although a mapping is stored: the page is shown with
\* its defaults
UnreadableStoreGivesDefaults ==
    /\ JustLoaded /\ ~storageAvailable
    /\ store = Stored([c \in {"user"} |-> FALSE])
    /\ page.kind = "rendered"
    /\ "user" \in DOMAIN checked /\ checked["user"]

\* the mapping stored has no key for an offered category: that category is
\* visible, the one with a key is as stored
MissingKeyGivesDefault ==
    /\ JustLoaded /\ storageAvailable
    /\ store = Stored([c \in {"user"} |-> FALSE])
    /\ DOMAIN checked = {"user", "assistant"}
    /\ ~checked["user"] /\ checked["assistant"]

-----------------------------------------------------------------------------
(* Properties of the normalised source text *)

\* the text the page has fetched
FetchedText == source.fetch.lines

\* the lines renderJsonl is given are the JSONL text of the values; the JSONL
\* text of no value is the empty text
IsJsonlOf(d) == doc = IF Len(d) = 0 THEN <<Raw(0, "")>> ELSE JsonlOf(d)

\* once the render has ended, the page is the page of that JSONL text
RenderedAsJsonl(d) == Settled => page = renderJsonl(JsonlOf(d), options)

\* C25: a document that is one JSON array of n values is rendered exactly as
\* the JSONL document of those n values; a document that is one JSON object,
\* on one line or on several, is rendered as the one-line document of that
\* object; a text that is not one valid JSON array or object goes to the
\* renderer unchanged.
C25_ArrayAsJsonl ==
    pc # "start" /\ source.fetch.ok =>
        /\ \A a \in ArrayDocuments :
              FetchedText \in TextsOf(a) => IsJsonlOf(a.v) /\ RenderedAsJsonl(a.v)
        /\ \A o \in ObjectDocuments :
              FetchedText \in TextsOf(o) => IsJsonlOf(<<o>>) /\ RenderedAsJsonl(<<o>>)
        /\ FetchedText \in OtherTexts => doc = FetchedText

\* an array of a message and a number, laid out on four lines between blank
\* lines: the page shows a user block and the block of the number
C25_Witness ==
    /\ pc = "done"
    /\ FetchedText = <<Raw(1, "")>> \o Laid(Arr(<<MsgUser, Num(0)>>)) \o <<Raw(0, "")>>
    /\ Len(FetchedText) = 6
    /\ doc = <<Raw(0, Compact(MsgUser)), Raw(0, "0")>>
    /\ Len(page.blocks) = 2 /\ page.blocks[1].cls = "user"

\* an object on several lines is rendered as one record
ObjectOnSeveralLines ==
    /\ pc = "done"
    /\ FetchedText = Laid(MsgUser) /\ Len(FetchedText) > 1
    /\ doc = <<Raw(0, Compact(MsgUser))>>
    /\ Len(page.blocks) = 1 /\ page.blocks[1].cls = "user"

\* an array cut short is not JSON: its two lines go to the renderer as they are
CutArrayUnchanged ==
    /\ pc = "done"
    /\ FetchedText = SubSeq(Laid(Arr(<<MsgUser>>)), 1, 2)
    /\ doc = FetchedText
    /\ Len(page.blocks) = 2

-----------------------------------------------------------------------------
(* Properties of the collapse thresholds *)

\* the query strings that hold a finite number, each with that number rounded
\* down and then raised to 1 when it is below
FlooredAndClamped ==
    ("4" :> 4) @@ ("3" :> 3) @@ (" 2 " :> 2) @@ ("1" :> 1) @@ ("0" :> 1) @@ ("-5" :> 1)
    @@ ("12.7" :> 12) @@ ("0.5" :> 1) @@ ("-0.5" :> 1) @@ ("1e3" :> 1000)

\* the threshold a query parameter asks for: the default for a parameter that
\* is missing, blank or holds no finite number
Effective(param, default) ==
    IF param.t = "string" /\ param.v[1] \in DOMAIN FlooredAndClamped
    THEN FlooredAndClamped[param.v[1]]
    ELSE default

\* C26: the character and line thresholds in effect are whole numbers of at
\* least 1: the defaults 15000 and 300 for a parameter that is missing, blank
\* or not a finite number, and otherwise the number given, rounded down and
\* raised to 1 when it is below.
C26_ThresholdsAtLeastOne ==
    pc # "start" =>
        /\ options.collapseOutputCharThreshold \in Nat \ {0}
        /\ options.collapseOutputLineThreshold \in Nat \ {0}
        /\ options.collapseOutputCharThreshold =
              Effective(source.params.collapseOutputCharThreshold, 15000)
        /\ options.collapseOutputLineThreshold =
              Effective(source.params.collapseOutputLineThreshold, 300)
        /\ pc = "done" =>
              (page.blocks[1].collapsed <=>
                  \/ 4 >= Effective(source.params.collapseOutputCharThreshold, 15000)
                  \/ 2 >= Effective(source.params.collapseOutputLineThreshold, 300))

\* a character threshold of -0.5 and a blank line threshold: the thresholds
\* in effect are 1 and 300, and the output of four characters is collapsed
C26_Witness ==
    /\ pc = "done"
    /\ source.params.collapseOutputCharThreshold = S("-0.5")
    /\ source.params.collapseOutputLineThreshold = S(" ")
    /\ options.collapseOutputCharThreshold = 1
    /\ options.collapseOutputLineThreshold = 300
    /\ page.blocks[1].collapsed

\* a character threshold of 12.7 is 12, and a line threshold that is not
\* finite is the default: the output of four characters is not collapsed
FractionRoundedDown ==
    /\ pc = "done"
    /\ source.params.collapseOutputCharThreshold = S("12.7")
    /\ source.params.collapseOutputLineThreshold = S("Infinity")
    /\ options.collapseOutputCharThreshold = 12
    /\ options.collapseOutputLineThreshold = 300
    /\ ~page.blocks[1].collapsed

-----------------------------------------------------------------------------
(* Properties of the toggle buttons *)

\* the button of every collapsible block says what the block is: collapsed,
\* aria-expanded false and Expand, or expanded, aria-expanded true and Collapse
ButtonsAgree ==
    /\ DOMAIN toggles = DOMAIN collapsedNow
    /\ \A i \in DOMAIN collapsedNow :
          /\ collapsedNow[i] <=> toggles[i].ariaExpanded = "false"
          /\ collapsedNow[i] <=> toggles[i].textContent = "Expand"
          /\ ~collapsedNow[i] <=> toggles[i].ariaExpanded = "true"
          /\ ~collapsedNow[i] <=> toggles[i].textContent = "Collapse"

\* C27: in every reachable state the toggle button of each collapsible block
\* agrees with the block, which has the class collapsed exactly when the
\* button has aria-expanded false and reads Expand; a click on the toggle of
\* one block flips that block and no other, and a second click would bring
\* back the state before the first.
C27_ToggleButtonAgrees ==
    /\ []ButtonsAgree
    /\ [][\A i \in 1..MaxDomLines :
            ToggleClick(i) =>
                /\ collapsedNow' = [collapsedNow EXCEPT ![i] = ~@]
                /\ \A j \in DOMAIN toggles \ {i} : toggles'[j] = toggles[j]
                /\ [collapsedNow' EXCEPT ![i] = ~@] = collapsedNow
                /\ [j \in DOMAIN toggles |->
                       IF j = i
                       THEN Button(IF collapsedNow[i] THEN "false" ELSE "true",
                                   IF collapsedNow[i] THEN "Expand" ELSE "Collapse")
                       ELSE toggles'[j]] = toggles]_vars

\* an output block built collapsed has been expanded by its toggle, next to
\* a reasoning block that is still as it was built
C27_Witness ==
    /\ pc = "done" /\ Len(page.blocks) = 2
    /\ page.blocks[1].cls = "reasoning" /\ page.blocks[2].cls = "func-output"
    /\ page.blocks[2].collapsed
    /\ DOMAIN collapsedNow = {1, 2} /\ ~collapsedNow[1] /\ ~collapsedNow[2]
    /\ toggles[1] = Button("true", "Collapse") /\ toggles[2] = Button("true", "Collapse")

\* an output block is shown as it was built, collapsed, its button reading Expand
BuiltCollapsed ==
    /\ pc = "done" /\ Len(page.blocks) = 1
    /\ page.blocks[1].cls = "func-output"
    /\ DOMAIN collapsedNow = {1} /\ collapsedNow[1]
    /\ toggles[1] = Button("false", "Expand")

-----------------------------------------------------------------------------
(* Properties of the session header *)

\* the fields of a record carry a truthy timestamp, git or instructions value
CarriesHeaderField(fields) ==
    \/ Truthy(Get(fields, "timestamp"))
    \/ Truthy(Get(fields, "git"))
    \/ Truthy(Get(fields, "instructions"))

\* the lines read so far whose record could be a session header
HeaderCandidates ==
    {i \in WellFormed(Processed) : CarriesHeaderField(Normalized(doc[i]))}

\* the lines read so far whose block is the session header, which is the
\* empty string when the record names no session, start, repository, branch
\* or commit; every line of these documents has its block, in order
Absorbed == {i \in 1..idx : i <= Len(blocks) /\ blocks[i].kind \in {"session", "empty"}}

\* the records read so far that are classified
Classified == WellFormed(Processed) \ Absorbed

\* C28: at most one record of a document is absorbed as the session header:
\* the first record read whose fields carry a truthy timestamp, git or
\* instructions value, whatever its kind, and no later one.  That record adds
\* no filter category, no token sample and no intervention marker, and it
\* takes one progress index.
C28_OneSessionHeader ==
    /\ Cardinality(Absorbed) <= 1
    /\ Absorbed = {i \in HeaderCandidates : \A j \in HeaderCandidates : i <= j}
    /\ sessionHeaderDone <=> Absorbed # {}
    /\ progress = Cardinality(WellFormed(Processed))
    /\ Len(tokenSeries) = Cardinality(TokenRecords \ Absorbed)
    /\ \A k \in 1..Len(tokenSeries) : RecordAt(tokenSeries[k].progress) \in TokenRecords \ Absorbed
    /\ Len(userInterventionProgress) =
          Cardinality({i \in Classified : IsUserAuthored(Normalized(doc[i]))})
    /\ \A k \in 1..Len(userInterventionProgress) :
          RecordAt(userInterventionProgress[k]) \in Classified
    /\ "user" \in availableFilterClasses
          <=> \E i \in Classified : IsUserAuthored(Normalized(doc[i]))
    /\ "usage" \in availableFilterClasses <=> TokenRecords \ Absorbed # {}

\* a user message with a timestamp, a token_count record with a timestamp and
\* a user message: the first is the header and gives no marker, the second is
\* a sample of index 1 although it has a timestamp, the third a marker of index 2
C28_Witness ==
    /\ pc = "done" /\ Len(doc) = 3
    /\ ValueOf(doc[1]) = MsgUserTs /\ ValueOf(doc[2]) = TokenTs /\ ValueOf(doc[3]) = MsgUser
    /\ Absorbed = {1}
    /\ progress = 3
    /\ Len(tokenSeries) = 1 /\ tokenSeries[1].progress = 1
    /\ userInterventionProgress = <<2>>

\* the only user message of a document is the header: no category is offered
HeaderNotClassified ==
    /\ pc = "done" /\ Len(doc) = 1
    /\ ValueOf(doc[1]) = MsgUserTs
    /\ Absorbed = {1}
    /\ availableFilterClasses = {} /\ userInterventionProgress = <<>>

\* a record with instructions, then a user message with a timestamp: the
\* first is the header, the second has the block and the marker of a user message
LaterCandidateIsEvent ==
    /\ pc = "done" /\ Len(doc) = 2
    /\ ValueOf(doc[1]) = Instructions /\ ValueOf(doc[2]) = MsgUserTs
    /\ Absorbed = {1} /\ blocks[2].kind = "block" /\ blocks[2].cls = "user"
    /\ userInterventionProgress = <<1>>

\* in the wrapped shape the fields are those of the payload: the timestamp of
\* the envelope makes no header
EnvelopeTimestampNoHeader ==
    /\ pc = "done" /\ Len(doc) = 1
    /\ ValueOf(doc[1]) = Wrapped(Timestamp(2), "response_item", MsgUser)
    /\ Absorbed = {} /\ ~sessionHeaderDone
    /\ userInterventionProgress = <<0>>

-----------------------------------------------------------------------------
(* Properties of the saved filter state *)

\* the categories whose checkboxes the toolbar of the page offers
Offered == {page.toolbar[i].cls : i \in 1..Len(page.toolbar)}

\* the store holds the JSON text of a mapping with a key for every category
\* offered and no other, each with the value of its checkbox
HoldsCheckboxes(item, boxes) ==
    /\ item.kind = "json"
    /\ DOMAIN item.state = Offered
    /\ \A c \in Offered : item.state[c] = boxes[c]

\* C29 as stated: after any toggle the store holds a key for every category
\* offered for the document, usage included, and for no other category; what
\* was stored before for other categories is not kept.
C29_SaveReplacesMapping ==
    [][\A c \in Categories : FilterChange(c) => HoldsCheckboxes(store', checked')]_vars

\* C29, amended: the same when localStorage takes the write; when it raises,
\* the store is left as it was.
C29_SaveReplacesMappingWhenWritable ==
    [][\A c \in Categories :
          FilterChange(c) =>
              IF storageAvailable THEN HoldsCheckboxes(store', checked')
              ELSE store' = store]_vars

\* the page offers user and usage, user has been toggled: the store holds
\* user and usage, and nothing of what a page with other categories had saved
C29_Witness ==
    /\ pc = "done" /\ ~fresh /\ storageAvailable
    /\ Offered = {"user", "usage"}
    /\ lastToggled["user"] = "false" /\ lastToggled["usage"] = "none"
    /\ store = Stored([c \in {"user", "usage"} |-> FALSE])

\* localStorage raises: after a toggle the store still holds what a page with
\* other categories had saved
StoreKeptWhenUnwritable ==
    /\ pc = "done" /\ ~fresh /\ ~storageAvailable
    /\ Offered = {"user"} /\ lastToggled["user"] = "false"
    /\ store = Stored([c \in {"assistant", "plan", "usage"} |-> c # "assistant"])

=============================================================================
